---- MODULE Spec2Model ----
(***************************************************************************)
(* Lion-Launcher: loader installation and launch assembly.                 *)
(*                                                                         *)
(* The module holds several state machines over one set of variables:      *)
(*   SpecDownload  DownloadManager::download_with_hash / download_file     *)
(*   SpecDedup     MinecraftLauncher::deduplicate_classpath                *)
(*   SpecLaunch    MinecraftLauncher::launch and the loader installers     *)
(*   SpecRace      two launches fetching one artifact into one store       *)
(*   SpecReinstall MinecraftLauncher::install_forge run twice              *)
(*   SpecBatch     DownloadManager::download_many                          *)
(*   SpecLoaderVersions  get_loader_versions of the metadata clients       *)
(*   SpecCompare   the version comparators, get_recommended_loader and     *)
(*                 is_loader_available                                     *)
(*   SpecResolve   the loader version a launch installs                    *)
(*   SpecSupported ForgeCompatClient::get_all_supported_versions           *)
(* Each specification leaves the variables of the others at their idle     *)
(* values.                                                                  *)
(***************************************************************************)
EXTENDS Integers, Sequences, FiniteSets, TLC

VARIABLES
    \* ---- DownloadManager (src/src/core/download/mod.rs)
    dl_pc,          \* position inside download_with_hash / download_file
    dl_call,        \* which entry point was called
    expected_sha1,  \* Option<&str>: "None" or the expected hex digest
    retries,        \* the local `retries` of download_with_hash
    dest,           \* the file at `dest`: "absent", "partial" or its bytes
    transfers,      \* what each download_file call so far delivered
    dl_result,      \* "none" while running, then "Ok" or "Err"
    \* ---- deduplicate_classpath (src/src/core/minecraft/mod.rs)
    dd_pc,          \* "input" -> "once" -> "twice"
    dd_in,          \* the classpath string handed in
    dd_once,        \* deduplicate_classpath(dd_in)
    dd_twice,       \* deduplicate_classpath(dd_once)
    \* ---- MinecraftLauncher::launch (src/src/core/minecraft/mod.rs)
    loader,             \* profile.loader.loader
    l_pc,               \* position inside launch
    version_libraries,  \* VersionInfo.libraries of the game version
    installer_file,     \* the loader installer jar: "absent", "valid", ...
    manifest,           \* version.json carried by the loader installer
    lib_i,              \* index of the next entry of version.libraries
    disk,               \* the paths that exist on disk
    vanilla_classpath,  \* what download_libraries returned
    main_class,         \* install result: main class
    classpath,          \* install result: classpath entries
    module_path,        \* install result: module-path entries
    jvm_args,           \* install result: JVM arguments
    game_args,          \* install result: game arguments
    cmd,                \* the command line handed to spawn
    launch_result,      \* "none" while running, then "Ok" or "Err"
    \* ---- two launches in download_libraries, one artifact, one store
    rc_pc,          \* per launch: position in download_libraries / download_with_hash
    rc_retries,     \* per launch: the local `retries` of download_with_hash
    rc_file,        \* per launch: the handle `file` of download_file
    rc_downloaded,  \* per launch: chunks written through `file` so far
    rc_exists,      \* whether `dest` names a file
    rc_content,     \* the chunks of the file `dest` names (FALSE: a hole)
    rc_found,       \* per launch: what `dest.exists()` found
    rc_read,        \* per launch: what the last `fs::read(dest)` returned
    rc_cp,          \* per launch: what `dest` held when pushed on the classpath
    rc_result,      \* per launch: "none" while running, then "Ok" or "Err"
    \* ---- MinecraftLauncher::install_forge called again (with the launch
    \*      variables loader, l_pc, installer_file, manifest, lib_i, disk,
    \*      main_class, classpath)
    profile,        \* what extract_install_profile reads from the installer
    fetched,        \* destinations download_with_hash was called for in this run
    failed,         \* whether a download of this run returned Err
    installed,      \* what each finished run returned
    \* ---- DownloadManager::download_many (src/src/core/download/mod.rs)
    downloads,      \* the batch: what each scheduled transfer will return
    dm_next,        \* index of the next entry the stream hands out
    dm_in_flight,   \* indices of the transfers buffer_unordered is polling
    dm_finished,    \* the results collected so far, in completion order
    dm_peak,        \* the most transfers that were in flight at once
    dm_result,      \* "none" while running, then "Ok" or "Err"
    \* ---- get_loader_versions of the metadata clients (SpecLoaderVersions)
    lv_client,      \* the client whose get_loader_versions is called
    lv_game,        \* the requested game version (`minecraft_version`)
    unreachable,    \* the endpoints whose request fails
    lv_index,       \* what the meta server lists: (game version, loader version) entries
    promos,         \* the Forge promotions document
    maven_versions, \* the versions of the NeoForge Maven metadata
    lv_result,      \* what get_loader_versions returned
    \* ---- the version comparators of the metadata clients (SpecCompare)
    cmp_a,          \* the first version string
    cmp_b,          \* the second version string
    forge_order,    \* ForgeClient::compare_version_strings(cmp_a, cmp_b)
    compat_order,   \* ForgeCompatClient::compare_versions(cmp_a, cmp_b)
    mc_order,       \* NeoForgeClient::compare_mc_versions(cmp_a, cmp_b)
    recommended,    \* ForgeCompatClient::get_recommended_loader(cmp_a)
    \* ---- the requests of install_forge_complete / install_neoforge_complete
    lib_outcome,    \* what the download of the step just run returned
    contacted,      \* the requests that step sent, in order: url and is_ok()
    \* ---- resolving the loader version of a profile (src/src/core/minecraft/mod.rs)
    rv_loader,      \* profile.loader.loader
    rv_version,     \* profile.loader.version
    loader_versions,\* what the loader's metadata client answers to get_loader_versions
    loader_version, \* the version the launch installs
    \* ---- ForgeCompatClient::is_loader_available (src/src/api/forge_compat.rs)
    available,      \* is_loader_available(loader, cmp_a), with the loader asked about
    \* ---- ForgeCompatClient::get_all_supported_versions (src/src/api/forge_compat.rs)
    sv_index,       \* the game version of each entry of the Forge index, in its order
    sv_maven,       \* the versions the NeoForge Maven lists
    sv_unreachable, \* the clients whose request fails
    supported       \* what get_all_supported_versions returns

dlVars == <<dl_pc, dl_call, expected_sha1, retries, dest, transfers, dl_result>>
ddVars == <<dd_pc, dd_in, dd_once, dd_twice>>
laVars == <<loader, l_pc, version_libraries, installer_file, manifest, lib_i, disk,
            vanilla_classpath, main_class, classpath, module_path, jvm_args,
            game_args, cmd, launch_result>>
rcVars == <<rc_pc, rc_retries, rc_file, rc_downloaded, rc_exists, rc_content,
            rc_found, rc_read, rc_cp, rc_result>>
riVars == <<profile, fetched, failed, installed>>
dmVars == <<downloads, dm_next, dm_in_flight, dm_finished, dm_peak, dm_result>>
lvVars == <<lv_client, lv_game, unreachable, lv_index, promos, maven_versions, lv_result>>
cmVars == <<cmp_a, cmp_b, forge_order, compat_order, mc_order, recommended>>
ftVars == <<lib_outcome, contacted>>
rvVars == <<rv_loader, rv_version, loader_versions, loader_version>>
avVars == <<available>>
svVars == <<sv_index, sv_maven, sv_unreachable, supported>>
vars == <<dlVars, ddVars, laVars, rcVars, riVars, dmVars, lvVars, cmVars, ftVars, rvVars, avVars, svVars>>

\* what the actions of one state machine leave alone
besidesDownload == <<ddVars, laVars, rcVars, riVars, dmVars, lvVars, cmVars, ftVars, rvVars, avVars, svVars>>
besidesDedup == <<dlVars, laVars, rcVars, riVars, dmVars, lvVars, cmVars, ftVars, rvVars, avVars, svVars>>
besidesLaunch == <<dlVars, ddVars, rcVars, riVars, dmVars, lvVars, cmVars, ftVars, rvVars, avVars, svVars>>
besidesRace == <<dlVars, ddVars, laVars, riVars, dmVars, lvVars, cmVars, ftVars, rvVars, avVars, svVars>>
besidesReinstall == <<dlVars, ddVars, rcVars, dmVars, lvVars, cmVars, ftVars, rvVars, avVars, svVars>>
besidesBatch == <<dlVars, ddVars, laVars, rcVars, riVars, lvVars, cmVars, ftVars, rvVars, avVars, svVars>>
besidesLoaderVersions == <<dlVars, ddVars, laVars, rcVars, riVars, dmVars, cmVars, ftVars, rvVars, avVars, svVars>>
besidesCompare == <<dlVars, ddVars, laVars, rcVars, riVars, dmVars, lvVars, ftVars, rvVars, avVars, svVars>>
besidesLibraries == <<dlVars, ddVars, rcVars, riVars, dmVars, lvVars, cmVars, rvVars, avVars, svVars>>
besidesResolve == <<dlVars, ddVars, laVars, rcVars, riVars, dmVars, lvVars, cmVars, ftVars, avVars, svVars>>
besidesAvailable == <<dlVars, ddVars, laVars, rcVars, riVars, dmVars, lvVars, cmVars, ftVars, rvVars, svVars>>
besidesSupported == <<dlVars, ddVars, laVars, rcVars, riVars, dmVars, lvVars, cmVars, ftVars, rvVars, avVars>>

(***************************************************************************)
(* Bounds of the model.                                                    *)
(***************************************************************************)
\* longest classpath string handed to deduplicate_classpath
MaxCpLen == 5
\* most entries of `libraries` in a loader installer's version.json
MaxLibs == 2
\* most entries of `libraries` in the game's version info
MaxVanillaLibs == 5
\* chunks the response body of one artifact arrives in
NumChunks == 2
\* most transfers in one download_many batch
MaxDownloads == 6

(***************************************************************************)
(* Strings (Rust str / String operations used by the code).                *)
(***************************************************************************)
\* the character at position i
CharAt(s, i) == SubSeq(s, i, i)

\* str::contains
Contains(s, f) ==
    \E i \in 0..(Len(s) - Len(f)) : SubSeq(s, i + 1, i + Len(f)) = f

\* str::starts_with
StartsWith(s, f) == Len(s) >= Len(f) /\ SubSeq(s, 1, Len(f)) = f

\* str::ends_with
EndsWith(s, f) == Len(s) >= Len(f) /\ SubSeq(s, Len(s) - Len(f) + 1, Len(s)) = f

\* position of the first occurrence of f in s, 0 when there is none
Find(s, f) ==
    IF Contains(s, f)
    THEN 1 + CHOOSE i \in 0..(Len(s) - Len(f)) :
                 /\ SubSeq(s, i + 1, i + Len(f)) = f
                 /\ \A j \in 0..(i - 1) : SubSeq(s, j + 1, j + Len(f)) # f
    ELSE 0

\* str::split(c), collected
RECURSIVE Split(_, _)
Split(s, c) ==
    IF Find(s, c) = 0
    THEN <<s>>
    ELSE <<SubSeq(s, 1, Find(s, c) - 1)>>
         \o Split(SubSeq(s, Find(s, c) + Len(c), Len(s)), c)

\* [String]::join(c)
RECURSIVE Join(_, _)
Join(parts, c) ==
    IF Len(parts) = 0 THEN ""
    ELSE IF Len(parts) = 1 THEN parts[1]
    ELSE parts[1] \o c \o Join(Tail(parts), c)

\* str::replace(from, to)
RECURSIVE Replace(_, _, _)
Replace(s, from, to) ==
    IF Find(s, from) = 0
    THEN s
    ELSE SubSeq(s, 1, Find(s, from) - 1) \o to
         \o Replace(SubSeq(s, Find(s, from) + Len(from), Len(s)), from, to)

\* str::trim
RECURSIVE Trim(_)
Trim(s) ==
    IF Len(s) = 0 THEN s
    ELSE IF CharAt(s, 1) = " " THEN Trim(SubSeq(s, 2, Len(s)))
    ELSE IF CharAt(s, Len(s)) = " " THEN Trim(SubSeq(s, 1, Len(s) - 1))
    ELSE s

\* the elements of a Vec
Range(seq) == {seq[i] : i \in 1..Len(seq)}

(***************************************************************************)
(* DownloadManager.                                                        *)
(***************************************************************************)
\* Contents a server can deliver, and the digest hex::encode(Sha1::digest(..))
\* gives for each (lower-case hex).
Bytes == {"good", "stale", "html404"}
Sha1Hex(b) == CASE b = "good" -> "aa" [] b = "stale" -> "bb" [] OTHER -> "cc"

\* str::to_lowercase on the digests the model uses
ToLowercase(h) == CASE h = "AA" -> "aa" [] h = "BB" -> "bb" [] OTHER -> h

\* Expected digests a manifest can carry (either letter case).
ExpectedDigests == {"aa", "AA"}

\* What one download_file call can do: deliver a whole body, fail before the
\* destination is created (send error), or fail while streaming chunks.
TransferOutcomes == Bytes \cup {"send_error", "stream_error"}

TransferOk(o) == o \in Bytes

\* The file at dest after one download_file call with outcome o.
FileAfterTransfer(before, o) ==
    CASE o = "send_error"   -> before
      [] o = "stream_error" -> "partial"
      [] OTHER              -> o

\* (variant: the digests compared as written, without to_lowercase)
HashMatchesCaseSensitive(content, expected) ==
    Sha1Hex(content) = expected

\* hash_str.to_lowercase() == expected.to_lowercase()
HashMatches(content, expected) ==
    ToLowercase(Sha1Hex(content)) = ToLowercase(expected)

\* let mut retries = 3
InitialRetries == 3

InitDownload ==
    /\ dl_pc = "start"
    /\ dl_call \in {"download_with_hash", "download_file"}
    /\ expected_sha1 \in (IF dl_call = "download_file" THEN {"None"}
                          ELSE {"None"} \cup ExpectedDigests)
    /\ retries = InitialRetries
    /\ dest \in {"absent", "stale"}
    /\ transfers = <<>>
    /\ dl_result = "none"

\* download_file called on its own: one transfer, its error propagated.
DownloadFile ==
    /\ dl_pc = "start" /\ dl_call = "download_file"
    /\ \E o \in TransferOutcomes :
         /\ transfers' = Append(transfers, o)
         /\ dest' = FileAfterTransfer(dest, o)
         /\ dl_result' = IF TransferOk(o) THEN "Ok" ELSE "Err"
    /\ dl_pc' = "done"
    /\ UNCHANGED <<dl_call, expected_sha1, retries>>
    /\ UNCHANGED besidesDownload

\* download_with_hash: entering the function.
EnterDownloadWithHash ==
    /\ dl_pc = "start" /\ dl_call = "download_with_hash"
    /\ dl_pc' = "loop"
    /\ UNCHANGED <<dl_call, expected_sha1, retries, dest, transfers, dl_result>>
    /\ UNCHANGED besidesDownload

\* One pass of `while retries > 0`: download, then verify.
Attempt ==
    /\ dl_pc = "loop" /\ retries > 0
    /\ \E o \in TransferOutcomes :
         /\ transfers' = Append(transfers, o)
         /\ IF ~TransferOk(o)
            THEN \* `?` on download_file
                 /\ dest' = FileAfterTransfer(dest, o)
                 /\ dl_result' = "Err" /\ dl_pc' = "done"
                 /\ UNCHANGED retries
            ELSE IF expected_sha1 = "None"
            THEN /\ dest' = o
                 /\ dl_result' = "Ok" /\ dl_pc' = "done"
                 /\ UNCHANGED retries
            ELSE IF HashMatches(o, expected_sha1)
            THEN /\ dest' = o
                 /\ dl_result' = "Ok" /\ dl_pc' = "done"
                 /\ UNCHANGED retries
            ELSE \* mismatch: remove_file, retries -= 1, sleep
                 /\ dest' = "absent"
                 /\ retries' = retries - 1
                 /\ dl_pc' = IF retries - 1 > 0 THEN "loop" ELSE "final"
                 /\ UNCHANGED dl_result
    /\ UNCHANGED <<dl_call, expected_sha1>>
    /\ UNCHANGED besidesDownload

\* (variant: the download after the loop verified like the others, a mismatch
\* returned as an error)
FinalDownloadStrict ==
    /\ dl_pc = "final"
    /\ \E o \in TransferOutcomes :
         /\ transfers' = Append(transfers, o)
         /\ dest' = FileAfterTransfer(dest, o)
         /\ dl_result' = IF TransferOk(o) /\ HashMatches(o, expected_sha1)
                         THEN "Ok" ELSE "Err"
    /\ dl_pc' = "done"
    /\ UNCHANGED <<dl_call, expected_sha1, retries>>
    /\ UNCHANGED besidesDownload

\* After the loop: one more download_file, no hash check.
FinalDownload ==
    /\ dl_pc = "final"
    /\ \E o \in TransferOutcomes :
         /\ transfers' = Append(transfers, o)
         /\ dest' = FileAfterTransfer(dest, o)
         /\ dl_result' = IF TransferOk(o) THEN "Ok" ELSE "Err"
    /\ dl_pc' = "done"
    /\ UNCHANGED <<dl_call, expected_sha1, retries>>
    /\ UNCHANGED besidesDownload

IdleDownload ==
    /\ dl_pc = "idle" /\ dl_call = "none" /\ expected_sha1 = "None"
    /\ retries = 0 /\ dest = "absent" /\ transfers = <<>> /\ dl_result = "none"

(***************************************************************************)
(* deduplicate_classpath.                                                  *)
(***************************************************************************)
\* Path::file_name: the last component, None ("") for a path that ends in
\* ".." or has no normal component.  Components ignore repeated and trailing
\* separators and every "." that is not the first component.
PathComponents(entry) ==
    LET segs == Split(entry, "/")
        NonEmpty(x) == Len(x) > 0
        kept == SelectSeq(segs, NonEmpty)
        NotCurDir(x) == x # "."
    IN  IF Len(kept) = 0 THEN <<>>
        ELSE <<kept[1]>> \o SelectSeq(Tail(kept), NotCurDir)

HasFileName(entry) ==
    LET c == PathComponents(entry)
    IN  /\ Len(c) > 0
        /\ c[Len(c)] # "."
        /\ c[Len(c)] # ".."

FileName(entry) == LET c == PathComponents(entry) IN c[Len(c)]

\* the deduplication key of an entry
DedupKey(entry) == IF HasFileName(entry) THEN FileName(entry) ELSE entry

\* (variant: a later entry replaces the earlier one of the same key)
RECURSIVE DedupLoopKeepLast(_, _, _)
DedupLoopKeepLast(entries, seen, unique_entries) ==
    IF Len(entries) = 0 THEN unique_entries
    ELSE LET entry == Trim(entries[1])
             Other(e) == DedupKey(e) # DedupKey(entry)
         IN  IF Len(entry) = 0
             THEN DedupLoopKeepLast(Tail(entries), seen, unique_entries)
             ELSE DedupLoopKeepLast(Tail(entries), seen \cup {DedupKey(entry)},
                                    Append(SelectSeq(unique_entries, Other), entry))

\* (variant: the emptiness test made before the trim instead of after it)
RECURSIVE DedupLoopEmptyBeforeTrim(_, _, _)
DedupLoopEmptyBeforeTrim(entries, seen, unique_entries) ==
    IF Len(entries) = 0 THEN unique_entries
    ELSE LET entry == Trim(entries[1])
         IN  IF Len(entries[1]) = 0
             THEN DedupLoopEmptyBeforeTrim(Tail(entries), seen, unique_entries)
             ELSE IF DedupKey(entry) \notin seen
             THEN DedupLoopEmptyBeforeTrim(Tail(entries), seen \cup {DedupKey(entry)},
                                           Append(unique_entries, entry))
             ELSE DedupLoopEmptyBeforeTrim(Tail(entries), seen, unique_entries)

\* the loop of deduplicate_classpath over the split entries
RECURSIVE DedupLoop(_, _, _)
DedupLoop(entries, seen, unique_entries) ==
    IF Len(entries) = 0 THEN unique_entries
    ELSE LET entry == Trim(entries[1])
         IN  IF Len(entry) = 0
             THEN DedupLoop(Tail(entries), seen, unique_entries)
             ELSE IF DedupKey(entry) \notin seen
             THEN DedupLoop(Tail(entries), seen \cup {DedupKey(entry)},
                            Append(unique_entries, entry))
             ELSE DedupLoop(Tail(entries), seen, unique_entries)

deduplicate_classpath(cp) ==
    Join(DedupLoop(Split(cp, ":"), {}, <<>>), ":")

\* The characters classpath strings are drawn from.
CpAlphabet == {":", "/", " ", ".", "a"}

RECURSIVE StringsOfLen(_)
StringsOfLen(n) ==
    IF n = 0 THEN {""}
    ELSE {s \o c : s \in StringsOfLen(n - 1), c \in CpAlphabet}

CpStrings == UNION {StringsOfLen(n) : n \in 0..MaxCpLen}

InitDedup ==
    /\ dd_pc = "input"
    /\ dd_in \in CpStrings
    /\ dd_once = ""
    /\ dd_twice = ""

DedupOnce ==
    /\ dd_pc = "input"
    /\ dd_once' = deduplicate_classpath(dd_in)
    /\ dd_pc' = "once"
    /\ UNCHANGED <<dd_in, dd_twice>>
    /\ UNCHANGED besidesDedup

DedupTwice ==
    /\ dd_pc = "once"
    /\ dd_twice' = deduplicate_classpath(dd_once)
    /\ dd_pc' = "twice"
    /\ UNCHANGED <<dd_in, dd_once>>
    /\ UNCHANGED besidesDedup

IdleDedup == dd_pc = "idle" /\ dd_in = "" /\ dd_once = "" /\ dd_twice = ""

(***************************************************************************)
(* MinecraftLauncher: the profile, the directories, the manifests.         *)
(***************************************************************************)
Loaders == {"Vanilla", "Fabric", "Forge", "NeoForge", "Quilt"}

\* The profile launched and the directories of config::defaults.
minecraft_version == "1.21.1"
forge_version == "52.0.1"
neoforge_version == "21.1.77"
versions_dir == "/v"
libraries_dir == "/l"
assets_dir == "/a"
game_dir == "/g"
username == "Steve"
uuid == "0-0-0-0"
asset_index_id == "17"
java_path == "/usr/bin/java"

\* Path::join
PathJoin(base, rel) ==
    IF StartsWith(rel, "/") THEN rel
    ELSE IF EndsWith(base, "/") THEN base \o rel
    ELSE base \o "/" \o rel

natives_dir == PathJoin(game_dir, "natives")

\* versions_dir.join(format!("{}/{}.jar", version, version))
client_jar ==
    PathJoin(versions_dir, minecraft_version \o "/" \o minecraft_version \o ".jar")

\* fn maven_to_path (group:artifact:version, a classifier is ignored)
maven_to_path(maven) ==
    LET parts == Split(maven, ":")
    IN  IF Len(parts) >= 3
        THEN Replace(parts[1], ".", "/") \o "/" \o parts[2] \o "/" \o parts[3]
             \o "/" \o parts[2] \o "-" \o parts[3] \o ".jar"
        ELSE maven

\* MinecraftLauncher::maven_to_path (with the optional classifier)
Self_maven_to_path(maven) ==
    LET parts == Split(maven, ":")
        classifier == IF Len(parts) > 3 THEN "-" \o parts[4] ELSE ""
    IN  IF Len(parts) >= 3
        THEN Replace(parts[1], ".", "/") \o "/" \o parts[2] \o "/" \o parts[3]
             \o "/" \o parts[2] \o "-" \o parts[3] \o classifier \o ".jar"
        ELSE maven

\* ---- the game's version info (struct Library)
NoMap == <<>>

VanillaLib(name, rules, artifact, natives, classifiers) ==
    [name |-> name, rules |-> rules, downloads |-> TRUE, artifact |-> artifact,
     natives |-> natives, classifiers |-> classifiers]

\* Entries a version manifest of the game carries: a plain library, one that
\* is allowed on osx only, one more plain library, and a second listing of the
\* first one that adds its natives.
VanillaCatalogue ==
    << VanillaLib("org.lwjgl:lwjgl:3.3.3", <<>>,
                  "org/lwjgl/lwjgl/3.3.3/lwjgl-3.3.3.jar", NoMap, NoMap),
       VanillaLib("ca.weblite:java-objc-bridge:1.1",
                  <<[action |-> "allow", os |-> "osx"]>>,
                  "ca/weblite/java-objc-bridge/1.1/java-objc-bridge-1.1.jar",
                  NoMap, NoMap),
       VanillaLib("net.sf.jopt-simple:jopt-simple:5.0.4", <<>>,
                  "net/sf/jopt-simple/jopt-simple/5.0.4/jopt-simple-5.0.4.jar",
                  NoMap, NoMap),
       VanillaLib("org.lwjgl:lwjgl:3.3.3", <<>>,
                  "org/lwjgl/lwjgl/3.3.3/lwjgl-3.3.3.jar",
                  [k \in {"linux"} |-> "natives-linux"],
                  [k \in {"natives-linux"} |->
                       "org/lwjgl/lwjgl/3.3.3/lwjgl-3.3.3-natives-linux.jar"]),
       VanillaLib("com.google.guava:guava:32.1.2-jre", <<>>,
                  "com/google/guava/guava/32.1.2-jre/guava-32.1.2-jre.jar",
                  NoMap, NoMap) >>

Min(a, b) == IF a < b THEN a ELSE b

VersionLibraries ==
    {SubSeq(VanillaCatalogue, 1, n) :
         n \in 0..Min(MaxVanillaLibs, Len(VanillaCatalogue))}

vanilla_main_class == "net.minecraft.client.main.Main"

\* ---- version.json of a loader installer (struct NeoForgeLib / ForgeLib)
ArtifactLib(name, url, path) ==
    [name |-> name, downloads |-> "Artifact", url |-> url, path |-> path]
MavenLib(name) ==
    [name |-> name, downloads |-> "None", url |-> "", path |-> ""]
NoArtifactLib(name) ==
    [name |-> name, downloads |-> "NoArtifact", url |-> "", path |-> ""]

NeoForgeCatalogue ==
    << ArtifactLib("cpw.mods:bootstraplauncher:2.0.2", "https://maven.neoforged.net/b",
                   "cpw/mods/bootstraplauncher/2.0.2/bootstraplauncher-2.0.2.jar"),
       ArtifactLib("net.neoforged:JarJarFileSystems:0.4.1", "https://maven.neoforged.net/j",
                   "net/neoforged/JarJarFileSystems/0.4.1/JarJarFileSystems-0.4.1.jar"),
       MavenLib("org.ow2.asm:asm:9.7"),
       NoArtifactLib("net.neoforged.fancymodloader:fmlcore:4.0.24"),
       ArtifactLib("net.neoforged:neoforge:21.1.77:universal", "",
                   "net/neoforged/neoforge/21.1.77/neoforge-21.1.77-universal.jar") >>

ForgeCatalogue ==
    << ArtifactLib("cpw.mods:bootstraplauncher:2.0.2", "https://maven.minecraftforge.net/b",
                   "cpw/mods/bootstraplauncher/2.0.2/bootstraplauncher-2.0.2.jar"),
       ArtifactLib("net.minecraftforge:fmlloader:1.21.1-52.0.1", "https://maven.minecraftforge.net/f",
                   "net/minecraftforge/fmlloader/1.21.1-52.0.1/fmlloader-1.21.1-52.0.1.jar"),
       MavenLib("com.google.guava:guava:32.1.2-jre"),
       ArtifactLib("commons-codec:commons-codec:1.16.0", "https://libraries.minecraft.net/c",
                   "commons-codec/commons-codec/1.16.0/commons-codec-1.16.0.jar"),
       ArtifactLib("net.sf.jopt-simple:jopt-simple:5.0.4", "https://libraries.minecraft.net/j",
                   "net/sf/jopt-simple/jopt-simple/5.0.4/jopt-simple-5.0.4.jar"),
       ArtifactLib("org.jetbrains:annotations:24.1.0", "https://libraries.minecraft.net/a",
                   "org/jetbrains/annotations/24.1.0/annotations-24.1.0.jar") >>

\* the sub-sequences of a catalogue with at most MaxLibs entries
RECURSIVE Pick(_, _, _)
Pick(cat, keep, i) ==
    IF i > Len(cat) THEN <<>>
    ELSE (IF i \in keep THEN <<cat[i]>> ELSE <<>>) \o Pick(cat, keep, i + 1)

Selections(cat) ==
    {Pick(cat, keep, 1) : keep \in {k \in SUBSET (1..Len(cat)) : Cardinality(k) <= MaxLibs}}

\* arguments.jvm of a version.json: absent (no strings), or strings with
\* placeholders
ManifestJvm ==
    {<<>>, <<"-DlibraryDirectory=${library_directory}",
               "-p", "${library_directory}/cpw/mods/bootstraplauncher/2.0.2/bootstraplauncher-2.0.2.jar",
               "--add-modules", "ALL-MODULE-PATH",
               "-Dname=${version_name}${classpath_separator}">>}

NoManifest ==
    [main_class |-> "", inherits_from |-> "None", libraries |-> <<>>, jvm |-> <<>>]

Manifests(l) ==
    IF l = "NeoForge"
    THEN {[main_class |-> "cpw.mods.bootstraplauncher.BootstrapLauncher",
           inherits_from |-> minecraft_version, libraries |-> libs, jvm |-> jvm] :
               libs \in Selections(NeoForgeCatalogue), jvm \in ManifestJvm}
    ELSE IF l = "Forge"
    THEN {[main_class |-> "net.minecraftforge.bootstrap.ForgeBootstrap",
           inherits_from |-> minecraft_version, libraries |-> libs, jvm |-> jvm] :
               libs \in Selections(ForgeCatalogue), jvm \in ManifestJvm}
    ELSE {NoManifest}

\* the entries of the installer archives
NeoForgeArchive ==
    << "version.json", "install_profile.json", "data/client.lzma",
       "maven/net/neoforged/neoforge/21.1.77/neoforge-21.1.77-universal.jar" >>
ForgeArchive ==
    << "version.json", "install_profile.json",
       "maven/net/minecraftforge/forge/1.21.1-52.0.1/forge-1.21.1-52.0.1-universal.jar" >>

\* the destinations of the maven/*.jar entries of an archive
EmbeddedJars(archive) ==
    {PathJoin(libraries_dir, SubSeq(archive[i], Len("maven/") + 1, Len(archive[i]))) :
         i \in {j \in 1..Len(archive) :
                    StartsWith(archive[j], "maven/") /\ EndsWith(archive[j], ".jar")}}

\* The Fabric / Quilt loader meta the API returns first for the game version.
FabricMeta ==
    [loader_maven |-> "net.fabricmc:fabric-loader:0.16.5",
     intermediary_maven |-> "net.fabricmc:intermediary:1.21.1",
     main_class |-> "net.fabricmc.loader.impl.launch.knot.KnotClient",
     libraries |-> << [name |-> "org.ow2.asm:asm:9.7", url |-> "https://maven.fabricmc.net/"],
                      [name |-> "net.fabricmc:sponge-mixin:0.15.3", url |-> ""] >>]
QuiltMeta ==
    [loader_maven |-> "org.quiltmc:quilt-loader:0.26.4",
     hashed_maven |-> "org.quiltmc:hashed:1.21.1",
     intermediary_maven |-> "net.fabricmc:intermediary:1.21.1",
     main_class |-> "org.quiltmc.loader.impl.launch.knot.KnotClient",
     libraries |-> << [name |-> "org.ow2.asm:asm:9.7",
                       url |-> "https://maven.quiltmc.org/repository/release/"] >>]

\* ---- downloads as the launcher sees them
\* download_with_hash seen from its caller: Ok with the file at dest, an error
\* that leaves no file, or an error that leaves what was written so far.
DownloadOutcomes == {"Ok", "ErrNoFile", "ErrPartial"}
DownloadErrors == {"ErrNoFile", "ErrPartial"}

DiskAfter(d, path, o) == IF o = "ErrNoFile" THEN d ELSE d \cup {path}

(***************************************************************************)
(* MinecraftLauncher: vanilla libraries.                                   *)
(***************************************************************************)
\* get_os on the build target
get_os == "linux"

\* check_rules: false at the first rule that names another OS to allow or
\* this OS to disallow
check_rules(rules) ==
    \A i \in 1..Len(rules) :
        \/ rules[i].os = "None"
        \/ ~ \/ (rules[i].action = "allow" /\ rules[i].os # get_os)
             \/ (rules[i].action = "disallow" /\ rules[i].os = get_os)

LibraryApplies(lib) == check_rules(lib.rules) /\ lib.downloads

HasNative(lib) ==
    /\ get_os \in DOMAIN lib.natives
    /\ lib.natives[get_os] \in DOMAIN lib.classifiers

\* download_libraries: the destinations it downloads, in order, from disk d
RECURSIVE LibraryDownloads(_, _)
LibraryDownloads(libs, d) ==
    IF Len(libs) = 0 THEN <<>>
    ELSE LET lib == Head(libs)
             art == IF /\ LibraryApplies(lib) /\ lib.artifact # "None"
                       /\ PathJoin(libraries_dir, lib.artifact) \notin d
                    THEN <<PathJoin(libraries_dir, lib.artifact)>> ELSE <<>>
             d1  == d \cup Range(art)
             nat == IF LibraryApplies(lib) /\ HasNative(lib)
                    THEN LET n == PathJoin(libraries_dir,
                                           lib.classifiers[lib.natives[get_os]])
                         IN  IF n \notin d1 THEN <<n>> ELSE <<>>
                    ELSE <<>>
         IN  art \o nat \o LibraryDownloads(Tail(libs), d1 \cup Range(nat))

\* download_libraries: the classpath it returns when no download fails
RECURSIVE LibraryClasspath(_)
LibraryClasspath(libs) ==
    IF Len(libs) = 0 THEN <<>>
    ELSE (IF LibraryApplies(Head(libs)) /\ Head(libs).artifact # "None"
          THEN <<PathJoin(libraries_dir, Head(libs).artifact)>> ELSE <<>>)
         \o LibraryClasspath(Tail(libs))

download_libraries(libs) == Join(LibraryClasspath(libs), ":")

\* (variant: a failed step does not end the launch)
FailLaunchContinue == l_pc' = "installed" /\ launch_result' = "none"

FailLaunch == l_pc' = "failed" /\ launch_result' = "Err"

\* launch up to the loader: version info, client jar, vanilla libraries, assets.
PrepareGame ==
    /\ l_pc = "start"
    /\ \/ \* get_version_info fails
          /\ FailLaunch
          /\ UNCHANGED <<disk, vanilla_classpath>>
       \/ \* the client jar is missing and its download fails
          /\ client_jar \notin disk
          /\ \E o \in DownloadErrors : disk' = DiskAfter(disk, client_jar, o)
          /\ FailLaunch
          /\ UNCHANGED vanilla_classpath
       \/ \* a library download fails: `?` ends the launch there
          LET d1 == disk \cup {client_jar}
              needed == LibraryDownloads(version_libraries, d1)
          IN  /\ \E k \in 1..Len(needed), o \in DownloadErrors :
                     disk' = DiskAfter(d1 \cup Range(SubSeq(needed, 1, k - 1)),
                                       needed[k], o)
              /\ FailLaunch
              /\ UNCHANGED vanilla_classpath
       \/ \* all libraries present; download_assets fails or not
          LET d1 == disk \cup {client_jar}
              needed == LibraryDownloads(version_libraries, d1)
          IN  /\ disk' = d1 \cup Range(needed)
              /\ \E assets_ok \in BOOLEAN :
                     IF assets_ok
                     THEN /\ vanilla_classpath' = download_libraries(version_libraries)
                          /\ l_pc' = IF loader = "Vanilla" THEN "installed" ELSE "install"
                          /\ UNCHANGED launch_result
                     ELSE /\ FailLaunch
                          /\ UNCHANGED vanilla_classpath
    /\ main_class' = IF loader = "Vanilla" THEN vanilla_main_class ELSE main_class
    /\ UNCHANGED <<loader, version_libraries, installer_file, manifest, lib_i,
                   classpath, module_path, jvm_args, game_args, cmd>>
    /\ UNCHANGED besidesLaunch

(***************************************************************************)
(* MinecraftLauncher::install_neoforge_complete / install_forge_complete.  *)
(***************************************************************************)
\* variant: the installer found is kept whatever it is
InstallerAfterCheckKeep(f) == f

\* `exists() && !is_valid_zip()` removes the installer
InstallerAfterCheck(f) == IF f = "corrupt" THEN "absent" ELSE f

\* what a download of the installer can leave at installer_path
InstallerDownloads == {"valid", "no_manifest", "corrupt"} \cup DownloadErrors

\* a download_with_hash call as its caller sees it
Request(url, ok) == [url |-> url, ok |-> ok]

\* ForgeClient::get_installer_url / NeoForgeClient::get_installer_url
get_installer_url(l) ==
    IF l = "NeoForge"
    THEN "https://maven.neoforged.net/releases/net/neoforged/neoforge/" \o neoforge_version
         \o "/neoforge-" \o neoforge_version \o "-installer.jar"
    ELSE "https://maven.minecraftforge.net/net/minecraftforge/forge/" \o minecraft_version
         \o "-" \o forge_version \o "/forge-" \o minecraft_version \o "-" \o forge_version
         \o "-installer.jar"

\* The requests of the installer step: one download when the check leaves no
\* file at installer_path, none when it leaves a zip archive.
InstallerRequests(l, checked, got) ==
    IF checked = "absent"
    THEN [outcome |-> IF got \in DownloadErrors THEN got ELSE "Ok",
          contacted |-> <<Request(get_installer_url(l), got \notin DownloadErrors)>>]
    ELSE [outcome |-> "None", contacted |-> <<>>]

\* the placeholders of a JVM argument
ProcessJvmArg(s, version_name) ==
    Replace(Replace(Replace(s, "${library_directory}", libraries_dir),
                    "${classpath_separator}", ":"),
            "${version_name}", version_name)

ManifestJvmArgs(m, version_name) ==
    [i \in 1..Len(m.jvm) |-> ProcessJvmArg(m.jvm[i], version_name)]

NeoForgeDefaultJvmArgs ==
    << "--add-opens=java.base/java.util.jar=ALL-UNNAMED",
       "--add-opens=java.base/java.lang.invoke=ALL-UNNAMED",
       "--add-opens=java.base/java.nio.file=ALL-UNNAMED",
       "--add-opens=java.base/java.net=ALL-UNNAMED",
       "--add-opens=java.base/java.io=ALL-UNNAMED",
       "--add-opens=java.base/java.lang=ALL-UNNAMED",
       "--add-opens=java.base/java.util=ALL-UNNAMED",
       "--add-opens=java.base/sun.nio.ch=ALL-UNNAMED",
       "--add-opens=java.base/jdk.internal.loader=ALL-UNNAMED",
       "--add-exports=java.base/sun.security.util=ALL-UNNAMED",
       "-Dminecraft.client.jar=" \o client_jar,
       "-DlibraryDirectory=" \o libraries_dir,
       "-DignoreList=bootstraplauncher,securejarhandler,asm-commons,asm-util,asm-analysis,asm-tree,asm,client-extra,fmlcore,javafmllanguage,lowcodelanguage,mclanguage,forge-,neoforge-",
       "-Dfml.earlyprogresswindow=false",
       "-DlegacyClassPath=" \o client_jar,
       "-Dfml.gameLayerLibraries=" \o client_jar >>

ForgeDefaultJvmArgs ==
    << "--add-opens=java.base/java.util.jar=ALL-UNNAMED",
       "--add-opens=java.base/java.lang.invoke=ALL-UNNAMED",
       "--add-opens=java.base/java.nio.file=ALL-UNNAMED",
       "--add-opens=java.base/java.io=ALL-UNNAMED",
       "--add-opens=java.base/java.lang=ALL-UNNAMED",
       "--add-opens=java.base/sun.nio.ch=ALL-UNNAMED",
       "--add-exports=java.base/sun.security.util=ALL-UNNAMED",
       "-Dminecraft.client.jar=" \o client_jar,
       "-DlibraryDirectory=" \o libraries_dir,
       "-DignoreList=bootstraplauncher,securejarhandler,asm-commons,asm-util,asm-analysis,asm-tree,asm,client-extra,fmlcore,javafmllanguage,lowcodelanguage,mclanguage,forge-",
       "-Dfml.earlyprogresswindow=false" >>

NeoForgeJvmArgs(m) ==
    LET args == ManifestJvmArgs(m, neoforge_version)
    IN  IF Len(args) = 0 \/ ~ \E i \in 1..Len(args) : StartsWith(args[i], "--add-opens")
        THEN args \o NeoForgeDefaultJvmArgs
        ELSE args

ForgeJvmArgs(m) ==
    LET args == ManifestJvmArgs(m, forge_version)
    IN  IF Len(args) = 0 THEN ForgeDefaultJvmArgs ELSE args

\* the last ':'-separated part of the last library whose name contains f
RECURSIVE VersionOfLibrary(_, _, _)
VersionOfLibrary(libs, f, found) ==
    IF Len(libs) = 0 THEN found
    ELSE VersionOfLibrary(Tail(libs), f,
             IF Contains(Head(libs).name, f)
             THEN LET parts == Split(Head(libs).name, ":") IN parts[Len(parts)]
             ELSE found)

\* inheritsFrom, or "1.<major>.<minor>" from the NeoForge version
NeoForgeMcVersion(m) ==
    IF m.inherits_from # "None" THEN m.inherits_from
    ELSE LET parts == Split(neoforge_version, ".")
         IN  "1." \o (IF Len(parts) >= 1 THEN parts[1] ELSE "21")
             \o "." \o (IF Len(parts) >= 2 THEN parts[2] ELSE "1")

NeoForgeGameArgs(m) ==
    LET mc_version == NeoForgeMcVersion(m)
        fml == VersionOfLibrary(m.libraries, "fmlcore", "")
        neoform == VersionOfLibrary(m.libraries, "neoform", "")
        fml_version == IF fml = "" THEN neoforge_version ELSE fml
        neoform_version == IF neoform = "" THEN mc_version \o "-" \o "20240808.144430"
                           ELSE neoform
    IN  << "--launchTarget", "forgeclient",
           "--fml.fmlVersion", fml_version,
           "--fml.mcVersion", mc_version,
           "--fml.neoForgeVersion", neoforge_version,
           "--fml.neoFormVersion", neoform_version,
           "--gameJar", client_jar >>

\* the module-path test of install_neoforge_complete
NeoForgeIsModule(name) ==
    \/ Contains(name, "bootstraplauncher")
    \/ Contains(name, "securejarhandler")
    \/ Contains(name, "jarjar")
    \/ Contains(name, "asm")

\* the module-path test of MinecraftLauncher::install_forge_complete
ForgeIsModule(name) ==
    \/ Contains(name, "bootstraplauncher")
    \/ Contains(name, "securejarhandler")
    \/ Contains(name, "jarjar")

\* ForgeInstaller::install_forge_complete (forge.rs): names that are never
\* put on the module-path
ForgeInstallerExcludedFragments ==
    {"failureaccess", "listenablefuture", "commons-codec", "error_prone_annotations"}

\* ForgeInstaller::install_forge_complete (forge.rs): names put on the
\* module-path
ForgeInstallerModuleFragments ==
    { "bootstraplauncher", "bootstrap-launcher", "bootstrap-api", "securejarhandler",
      "securemodules", "fmlloader", "modlauncher", "cpw.mods", "net.minecraftforge",
      "minecraftforge", "unsafe", "forgespi", "coremods", "eventbus", "mergetool",
      "srgutils", "accesstransformer", "log4j", "slf4j", "terminalconsoleappender",
      "nashorn", "org.ow2.asm", ":asm:", ":asm-", "mixin", "guava", "checker-qual",
      "j2objc", "jspecify", "jopt-simple", "jopt.simple", "net.sf.jopt", "jline",
      "gson", "commons-", "httpclient", "httpcore", "netty", "fastutil", "brigadier",
      "datafixerupper", "authlib", "text2speech", "jna", "oshi", "caffeine", "lz4",
      "antlr", "maven", "plexus", "night-config", "javaparser" }

\* ForgeInstaller::install_forge_complete (forge.rs): the exclusion list is
\* tested first, then the module list
ForgeInstallerIsModule(name) ==
    /\ ~ \E f \in ForgeInstallerExcludedFragments : Contains(name, f)
    /\ \E f \in ForgeInstallerModuleFragments : Contains(name, f)

\* One entry of version.libraries: where it belongs and the disk after
\* fetching it with outcome o (artifact download, or the mirrors in turn).
FetchLibrary(lib, d, o) ==
    IF lib.downloads = "NoArtifact"
    THEN [skip |-> TRUE, path |-> "", disk |-> d]
    ELSE IF lib.downloads = "Artifact"
    THEN LET lib_path == PathJoin(libraries_dir, lib.path)
         IN  [skip |-> FALSE, path |-> lib_path,
              disk |-> IF lib_path \notin d /\ lib.url # "" THEN DiskAfter(d, lib_path, o) ELSE d]
    ELSE LET lib_path == PathJoin(libraries_dir, Self_maven_to_path(lib.name))
         IN  [skip |-> FALSE, path |-> lib_path,
              disk |-> IF lib_path \notin d THEN DiskAfter(d, lib_path, o) ELSE d]

\* the repositories tried in turn for an entry without `downloads`
ForgeMirrors ==
    << "https://maven.minecraftforge.net/", "https://repo1.maven.org/maven2/",
       "https://libraries.minecraft.net/" >>
NeoForgeMirrors ==
    << "https://maven.neoforged.net/releases/", "https://maven.minecraftforge.net/",
       "https://repo1.maven.org/maven2/", "https://libraries.minecraft.net/" >>

\* variant: every mirror is asked, the loop never breaking
LibraryRequestsNoBreak(lib, d, mirrors, o, k) ==
    LET r == FetchLibrary(lib, d, o)
    IN  IF r.skip \/ r.path \in d \/ (lib.downloads = "Artifact" /\ lib.url = "")
        THEN [outcome |-> "None", contacted |-> <<>>]
        ELSE IF lib.downloads = "Artifact"
        THEN [outcome |-> o, contacted |-> <<Request(lib.url, o = "Ok")>>]
        ELSE [outcome |-> o,
              contacted |-> [i \in 1..Len(mirrors) |->
                                 Request(mirrors[i] \o Self_maven_to_path(lib.name),
                                         o = "Ok" /\ i >= k)]]

\* The requests of one pass: none when the entry is skipped or its file is
\* there; the artifact's url; or the mirrors in turn, the loop breaking at
\* the first is_ok(), which is the k-th request.  o is what the pass is left
\* with: Ok, or an error with or without a file written by one of the
\* requests.
LibraryRequests(lib, d, mirrors, o, k) ==
    LET r == FetchLibrary(lib, d, o)
        n == IF o = "Ok" THEN k ELSE Len(mirrors)
    IN  IF r.skip \/ r.path \in d \/ (lib.downloads = "Artifact" /\ lib.url = "")
        THEN [outcome |-> "None", contacted |-> <<>>]
        ELSE IF lib.downloads = "Artifact"
        THEN [outcome |-> o, contacted |-> <<Request(lib.url, o = "Ok")>>]
        ELSE [outcome |-> o,
              contacted |-> [i \in 1..n |->
                                 Request(mirrors[i] \o Self_maven_to_path(lib.name),
                                         o = "Ok" /\ i = k)]]

\* install_neoforge_complete up to the extraction of the embedded jars
NeoForgeInstaller ==
    /\ l_pc = "install" /\ loader = "NeoForge"
    /\ LET checked == InstallerAfterCheck(installer_file)
       IN  \E got \in (IF checked = "absent" THEN InstallerDownloads ELSE {checked}) :
           /\ lib_outcome' = InstallerRequests(loader, checked, got).outcome
           /\ contacted' = InstallerRequests(loader, checked, got).contacted
           /\ IF got \in DownloadErrors
             THEN /\ installer_file' = IF got = "ErrPartial" THEN "corrupt" ELSE "absent"
                  /\ FailLaunch
                  /\ UNCHANGED <<disk, main_class, jvm_args, game_args>>
             ELSE IF got = "corrupt" /\ checked = "absent"
             THEN \* downloaded, not a valid zip: removed, bail
                  /\ installer_file' = "absent"
                  /\ FailLaunch
                  /\ UNCHANGED <<disk, main_class, jvm_args, game_args>>
             ELSE IF got = "no_manifest"
             THEN \* version.json not found in installer
                  /\ installer_file' = got
                  /\ FailLaunch
                  /\ UNCHANGED <<disk, main_class, jvm_args, game_args>>
             ELSE /\ installer_file' = got
                  /\ main_class' = manifest.main_class
                  /\ jvm_args' = NeoForgeJvmArgs(manifest)
                  /\ game_args' = NeoForgeGameArgs(manifest)
                  /\ disk' = disk \cup EmbeddedJars(NeoForgeArchive)
                  /\ l_pc' = "libraries"
                  /\ UNCHANGED launch_result
    /\ lib_i' = 1 /\ classpath' = <<>> /\ module_path' = <<>>
    /\ UNCHANGED <<loader, version_libraries, manifest, vanilla_classpath, cmd>>
    /\ UNCHANGED besidesLibraries

\* one pass of `for lib in &version.libraries` in install_neoforge_complete
NeoForgeLibrary ==
    /\ l_pc = "libraries" /\ loader = "NeoForge"
    /\ lib_i <= Len(manifest.libraries)
    /\ \E o \in DownloadOutcomes, k \in 1..Len(NeoForgeMirrors) :
         LET lib == manifest.libraries[lib_i]
             r == FetchLibrary(lib, disk, o)
             q == LibraryRequests(lib, disk, NeoForgeMirrors, o, k)
         IN  /\ disk' = r.disk
             /\ lib_outcome' = q.outcome
             /\ contacted' = q.contacted
             /\ IF ~r.skip /\ r.path \in r.disk
                THEN IF NeoForgeIsModule(lib.name)
                     THEN /\ module_path' = Append(module_path, r.path)
                          /\ UNCHANGED classpath
                     ELSE /\ classpath' = Append(classpath, r.path)
                          /\ UNCHANGED module_path
                ELSE UNCHANGED <<classpath, module_path>>
    /\ lib_i' = lib_i + 1
    /\ UNCHANGED <<loader, l_pc, version_libraries, installer_file, manifest,
                   vanilla_classpath, main_class, jvm_args, game_args, cmd,
                   launch_result>>
    /\ UNCHANGED besidesLibraries

neoforge_universal_path ==
    PathJoin(libraries_dir, "net/neoforged/neoforge/" \o neoforge_version
             \o "/neoforge-" \o neoforge_version \o "-universal.jar")

jarjar_filesystems_path ==
    PathJoin(libraries_dir,
             "net/neoforged/JarJarFileSystems/0.4.1/JarJarFileSystems-0.4.1.jar")

\* the universal jar: downloaded and pushed, or pushed when no classpath entry
\* names it
ClasspathWithUniversal(cp, d, o) ==
    IF neoforge_universal_path \notin d
    THEN IF o = "Ok" THEN Append(cp, neoforge_universal_path) ELSE cp
    ELSE IF ~ \E i \in 1..Len(cp) :
                Contains(cp[i], "neoforge") /\ Contains(cp[i], "universal")
         THEN Append(cp, neoforge_universal_path)
         ELSE cp

\* JarJarFileSystems: downloaded and pushed, or pushed when no module-path
\* entry names it
ModulePathWithJarJar(mp, d, o) ==
    IF jarjar_filesystems_path \notin d
    THEN IF o = "Ok" THEN Append(mp, jarjar_filesystems_path) ELSE mp
    ELSE IF ~ \E i \in 1..Len(mp) : Contains(mp[i], "JarJarFileSystems")
         THEN Append(mp, jarjar_filesystems_path)
         ELSE mp

\* install_neoforge_complete after the loop: universal jar, JarJarFileSystems
NeoForgeCriticalJars ==
    /\ l_pc = "libraries" /\ loader = "NeoForge"
    /\ lib_i > Len(manifest.libraries)
    /\ \E o1 \in DownloadOutcomes, o2 \in DownloadOutcomes :
         LET d1 == IF neoforge_universal_path \notin disk
                   THEN DiskAfter(disk, neoforge_universal_path, o1) ELSE disk
             d2 == IF jarjar_filesystems_path \notin d1
                   THEN DiskAfter(d1, jarjar_filesystems_path, o2) ELSE d1
         IN  /\ classpath' = ClasspathWithUniversal(classpath, disk, o1)
             /\ module_path' = ModulePathWithJarJar(module_path, d1, o2)
             /\ disk' = d2
    /\ l_pc' = "installed"
    /\ lib_outcome' = "None" /\ contacted' = <<>>
    /\ UNCHANGED <<loader, version_libraries, installer_file, manifest, lib_i,
                   vanilla_classpath, main_class, jvm_args, game_args, cmd,
                   launch_result>>
    /\ UNCHANGED besidesLibraries

\* install_forge_complete up to the extraction of the embedded jars
ForgeInstaller ==
    /\ l_pc = "install" /\ loader = "Forge"
    /\ LET checked == InstallerAfterCheck(installer_file)
       IN  \E got \in (IF checked = "absent" THEN InstallerDownloads ELSE {checked}) :
           /\ lib_outcome' = InstallerRequests(loader, checked, got).outcome
           /\ contacted' = InstallerRequests(loader, checked, got).contacted
           /\ IF got \in DownloadErrors
             THEN /\ installer_file' = IF got = "ErrPartial" THEN "corrupt" ELSE "absent"
                  /\ FailLaunch
                  /\ UNCHANGED <<disk, main_class, jvm_args, game_args>>
             ELSE IF got \in {"corrupt", "no_manifest"}
             THEN \* ZipArchive::new fails, or version.json not found
                  /\ installer_file' = got
                  /\ FailLaunch
                  /\ UNCHANGED <<disk, main_class, jvm_args, game_args>>
             ELSE /\ installer_file' = got
                  /\ main_class' = manifest.main_class
                  /\ jvm_args' = ForgeJvmArgs(manifest)
                  /\ disk' = disk \cup EmbeddedJars(ForgeArchive)
                  /\ l_pc' = "libraries"
                  /\ UNCHANGED <<game_args, launch_result>>
    /\ lib_i' = 1 /\ classpath' = <<>> /\ module_path' = <<>>
    /\ UNCHANGED <<loader, version_libraries, manifest, vanilla_classpath, cmd>>
    /\ UNCHANGED besidesLibraries

\* one pass of `for lib in &version.libraries` in install_forge_complete
ForgeLibrary ==
    /\ l_pc = "libraries" /\ loader = "Forge"
    /\ lib_i <= Len(manifest.libraries)
    /\ \E o \in DownloadOutcomes, k \in 1..Len(ForgeMirrors) :
         LET lib == manifest.libraries[lib_i]
             r == FetchLibrary(lib, disk, o)
             q == LibraryRequests(lib, disk, ForgeMirrors, o, k)
         IN  /\ disk' = r.disk
             /\ lib_outcome' = q.outcome
             /\ contacted' = q.contacted
             /\ IF ~r.skip /\ r.path \in r.disk
                THEN IF ForgeIsModule(lib.name)
                     THEN /\ module_path' = Append(module_path, r.path)
                          /\ UNCHANGED classpath
                     ELSE /\ classpath' = Append(classpath, r.path)
                          /\ UNCHANGED module_path
                ELSE UNCHANGED <<classpath, module_path>>
    /\ lib_i' = lib_i + 1
    /\ UNCHANGED <<loader, l_pc, version_libraries, installer_file, manifest,
                   vanilla_classpath, main_class, jvm_args, game_args, cmd,
                   launch_result>>
    /\ UNCHANGED besidesLibraries

\* variant: the result built without waiting for the loop to end
ForgeResultEarly ==
    /\ l_pc = "libraries" /\ loader = "Forge"
    /\ game_args' = <<"--launchTarget", "forgeclient">>
    /\ l_pc' = "installed"
    /\ lib_outcome' = "None" /\ contacted' = <<>>
    /\ UNCHANGED <<loader, version_libraries, installer_file, manifest, lib_i, disk,
                   vanilla_classpath, main_class, classpath, module_path, jvm_args,
                   cmd, launch_result>>
    /\ UNCHANGED besidesLibraries

\* install_forge_complete after the loop: the game arguments, the result
ForgeResult ==
    /\ l_pc = "libraries" /\ loader = "Forge"
    /\ lib_i > Len(manifest.libraries)
    /\ game_args' = <<"--launchTarget", "forgeclient">>
    /\ l_pc' = "installed"
    /\ lib_outcome' = "None" /\ contacted' = <<>>
    /\ UNCHANGED <<loader, version_libraries, installer_file, manifest, lib_i, disk,
                   vanilla_classpath, main_class, classpath, module_path, jvm_args,
                   cmd, launch_result>>
    /\ UNCHANGED besidesLibraries

(***************************************************************************)
(* MinecraftLauncher::install_fabric / install_quilt.                      *)
(***************************************************************************)
\* The loader jars, each downloaded with `?` when missing: whether all are
\* there, and the disk afterwards.
RECURSIVE RequiredJars(_, _, _)
RequiredJars(dests, d, outs) ==
    IF Len(dests) = 0 THEN [ok |-> TRUE, disk |-> d]
    ELSE IF Head(dests) \in d THEN RequiredJars(Tail(dests), d, Tail(outs))
    ELSE IF Head(outs) = "Ok"
    THEN RequiredJars(Tail(dests), d \cup {Head(dests)}, Tail(outs))
    ELSE [ok |-> FALSE, disk |-> DiskAfter(d, Head(dests), Head(outs))]

\* The libraries of the loader meta: a missing one is downloaded from its
\* repository, then from Maven Central, and skipped when both fail.
RECURSIVE OptionalLibraries(_, _, _, _)
OptionalLibraries(dests, d, outs, entries) ==
    IF Len(dests) = 0 THEN [disk |-> d, entries |-> entries]
    ELSE IF Head(dests) \in d
    THEN OptionalLibraries(Tail(dests), d, Tail(outs), Append(entries, Head(dests)))
    ELSE OptionalLibraries(Tail(dests), DiskAfter(d, Head(dests), Head(outs)), Tail(outs),
                           IF Head(outs) = "Ok" THEN Append(entries, Head(dests))
                           ELSE entries)

MetaLibraryDests(meta) ==
    [i \in 1..Len(meta.libraries) |->
         PathJoin(libraries_dir, maven_to_path(meta.libraries[i].name))]

FabricRequired ==
    << PathJoin(libraries_dir, maven_to_path(FabricMeta.loader_maven)),
       PathJoin(libraries_dir, maven_to_path(FabricMeta.intermediary_maven)) >>

QuiltRequired ==
    << PathJoin(libraries_dir, maven_to_path(QuiltMeta.loader_maven)),
       PathJoin(libraries_dir, maven_to_path(QuiltMeta.hashed_maven)),
       PathJoin(libraries_dir, maven_to_path(QuiltMeta.intermediary_maven)) >>

\* install_fabric / install_quilt over the loader meta
InstallFromMeta(meta, required) ==
    \/ \* the meta API fails or lists no loader
       /\ FailLaunch
       /\ UNCHANGED <<disk, classpath, main_class>>
    \/ \E outs \in [1..Len(required) -> DownloadOutcomes],
          louts \in [1..Len(meta.libraries) -> DownloadOutcomes] :
         LET r == RequiredJars(required, disk, outs)
             l == OptionalLibraries(MetaLibraryDests(meta), r.disk, louts, required)
         IN  IF r.ok
             THEN /\ disk' = l.disk
                  /\ classpath' = l.entries
                  /\ main_class' = meta.main_class
                  /\ l_pc' = "installed"
                  /\ UNCHANGED launch_result
             ELSE /\ disk' = r.disk
                  /\ FailLaunch
                  /\ UNCHANGED <<classpath, main_class>>

InstallFabric ==
    /\ l_pc = "install" /\ loader = "Fabric"
    /\ InstallFromMeta(FabricMeta, FabricRequired)
    /\ UNCHANGED <<loader, version_libraries, installer_file, manifest, lib_i,
                   vanilla_classpath, module_path, jvm_args, game_args, cmd>>
    /\ UNCHANGED besidesLaunch

InstallQuilt ==
    /\ l_pc = "install" /\ loader = "Quilt"
    /\ InstallFromMeta(QuiltMeta, QuiltRequired)
    /\ UNCHANGED <<loader, version_libraries, installer_file, manifest, lib_i,
                   vanilla_classpath, module_path, jvm_args, game_args, cmd>>
    /\ UNCHANGED besidesLaunch

(***************************************************************************)
(* The command line.                                                       *)
(***************************************************************************)
\* Option<&str> access tokens a caller passes
AccessTokens == {"None", "0", "token"}

\* (variant: msa whenever a token was supplied, the placeholder included)
UserArgsAnyToken(access_token) ==
    LET token == IF access_token = "None" THEN "0" ELSE access_token
        user_type == IF access_token # "None" THEN "msa" ELSE "legacy"
    IN  << "--username", username, "--version", minecraft_version,
           "--gameDir", game_dir, "--assetsDir", assets_dir,
           "--assetIndex", asset_index_id, "--uuid", uuid,
           "--accessToken", token, "--userType", user_type >>

UserArgs(access_token) ==
    LET token == IF access_token = "None" THEN "0" ELSE access_token
        user_type == IF access_token # "None" /\ token # "0" THEN "msa" ELSE "legacy"
    IN  << "--username", username, "--version", minecraft_version,
           "--gameDir", game_dir, "--assetsDir", assets_dir,
           "--assetIndex", asset_index_id, "--uuid", uuid,
           "--accessToken", token, "--userType", user_type >>

\* profile.memory_mb is None: 4096 and its half
MemoryArgs == <<"-Xmx4096M", "-Xms2048M">>

\* (variant: the client jar appended after the vanilla libraries)
CombinedClasspathClientLast(client, cp, vanilla) ==
    IF Len(cp) = 0
    THEN vanilla \o ":" \o client
    ELSE deduplicate_classpath(Join(cp, ":") \o ":" \o vanilla \o ":" \o client)

\* combined_classpath of launch_neoforge_or_forge
CombinedClasspath(client, cp, vanilla) ==
    IF Len(cp) = 0
    THEN client \o ":" \o vanilla
    ELSE deduplicate_classpath(client \o ":" \o Join(cp, ":") \o ":" \o vanilla)

LaunchTargetArgs(mc, ga) ==
    IF /\ Contains(mc, "BootstrapLauncher") \/ Contains(mc, "modlauncher")
       /\ ~ \E i \in 1..Len(ga) : Contains(ga[i], "launchTarget")
    THEN <<"--launchTarget", "forgeclient">>
    ELSE <<>>

\* (variant: -p emitted whatever the module-path holds)
ModulePathArgsAlways(mp) ==
    <<"-p", Join(mp, ":"), "--add-modules", "ALL-MODULE-PATH">>

\* `if !install_result.module_path.is_empty()`: -p and --add-modules
ModulePathArgs(mp) ==
    IF Len(mp) # 0
    THEN <<"-p", Join(mp, ":"), "--add-modules", "ALL-MODULE-PATH">>
    ELSE <<>>

ForgeCommand(access_token) ==
    <<java_path>> \o MemoryArgs
    \o << "-Djava.library.path=" \o natives_dir,
          "-XX:+UseG1GC", "-XX:+UnlockExperimentalVMOptions",
          "-XX:G1NewSizePercent=20", "-XX:G1ReservePercent=20",
          "-XX:MaxGCPauseMillis=50", "-XX:G1HeapRegionSize=32M" >>
    \o jvm_args
    \o ModulePathArgs(module_path)
    \o <<"-cp", CombinedClasspath(client_jar, classpath, vanilla_classpath)>>
    \o <<main_class>>
    \o game_args
    \o LaunchTargetArgs(main_class, game_args)
    \o UserArgs(access_token)

\* launch_neoforge_or_forge after the install: find_java, the command, spawn
LaunchNeoForgeOrForge ==
    /\ l_pc = "installed" /\ loader \in {"Forge", "NeoForge"}
    /\ \/ \* find_java fails
          /\ FailLaunch
          /\ UNCHANGED cmd
       \/ \E access_token \in AccessTokens, spawned \in BOOLEAN :
            /\ cmd' = ForgeCommand(access_token)
            /\ IF spawned THEN l_pc' = "launched" /\ launch_result' = "Ok"
               ELSE FailLaunch
    /\ UNCHANGED <<loader, version_libraries, installer_file, manifest, lib_i, disk,
                   vanilla_classpath, main_class, classpath, module_path, jvm_args,
                   game_args>>
    /\ UNCHANGED besidesLaunch

\* the vanilla classpath without the entries under /org/ow2/asm/
FilteredVanillaClasspath(cp) ==
    LET NotAsm(path) == ~Contains(path, "/org/ow2/asm/")
    IN  Join(SelectSeq(Split(cp, ":"), NotAsm), ":")

\* final_classpath of launch for Fabric, Quilt and Vanilla
FinalClasspath(l, loader_cp, vanilla, client) ==
    IF l = "Vanilla"
    THEN vanilla \o ":" \o client
    ELSE Join(loader_cp, ":") \o ":" \o FilteredVanillaClasspath(vanilla) \o ":" \o client

StandardCommand(access_token) ==
    <<java_path>> \o MemoryArgs
    \o <<"-Djava.library.path=" \o natives_dir, "-XX:+UseG1GC">>
    \o (IF loader = "Fabric" THEN <<"-Dfabric.gameJarPath=" \o client_jar>>
        ELSE IF loader = "Quilt" THEN <<"-Dquilt.gameJarPath=" \o client_jar>>
        ELSE <<>>)
    \o <<"-cp", FinalClasspath(loader, classpath, vanilla_classpath, client_jar)>>
    \o <<main_class>>
    \o UserArgs(access_token)

\* launch_standard
LaunchStandard ==
    /\ l_pc = "installed" /\ loader \in {"Vanilla", "Fabric", "Quilt"}
    /\ \/ \* find_java fails
          /\ FailLaunch
          /\ UNCHANGED cmd
       \/ \E access_token \in AccessTokens, spawned \in BOOLEAN :
            /\ cmd' = StandardCommand(access_token)
            /\ IF spawned THEN l_pc' = "launched" /\ launch_result' = "Ok"
               ELSE FailLaunch
    /\ UNCHANGED <<loader, version_libraries, installer_file, manifest, lib_i, disk,
                   vanilla_classpath, main_class, classpath, module_path, jvm_args,
                   game_args>>
    /\ UNCHANGED besidesLaunch

\* the value that follows a flag on the command line
ArgAfter(c, flag) ==
    c[1 + CHOOSE i \in 1..Len(c) : c[i] = flag /\ \A j \in 1..(i - 1) : c[j] # flag]

HasArg(c, flag) == \E i \in 1..Len(c) : c[i] = flag

(***************************************************************************)
(* The store a launch starts from.                                         *)
(***************************************************************************)
LibDest(lib) ==
    IF lib.downloads = "Artifact" THEN PathJoin(libraries_dir, lib.path)
    ELSE PathJoin(libraries_dir, Self_maven_to_path(lib.name))

\* everything an earlier launch of the same profile has left in the store
WarmDisk(l) ==
    {client_jar}
    \cup Range(LibraryDownloads(VanillaCatalogue, {}))
    \cup (IF l = "NeoForge"
          THEN {LibDest(NeoForgeCatalogue[i]) : i \in 1..Len(NeoForgeCatalogue)}
               \cup EmbeddedJars(NeoForgeArchive) \cup {jarjar_filesystems_path}
          ELSE IF l = "Forge"
          THEN {LibDest(ForgeCatalogue[i]) : i \in 1..Len(ForgeCatalogue)}
               \cup EmbeddedJars(ForgeArchive)
          ELSE IF l = "Fabric"
          THEN Range(FabricRequired) \cup Range(MetaLibraryDests(FabricMeta))
          ELSE IF l = "Quilt"
          THEN Range(QuiltRequired) \cup Range(MetaLibraryDests(QuiltMeta))
          ELSE {})

Stores(l) ==
    IF l \in {"Forge", "NeoForge"}
    THEN { [disk |-> {}, installer |-> "absent"],
           [disk |-> {}, installer |-> "corrupt"],
           [disk |-> {client_jar}, installer |-> "valid"],
           [disk |-> WarmDisk(l), installer |-> "valid"] }
    ELSE { [disk |-> {}, installer |-> "absent"],
           [disk |-> WarmDisk(l), installer |-> "absent"] }

InitLaunch ==
    /\ loader \in Loaders
    /\ l_pc = "start"
    /\ version_libraries \in VersionLibraries
    /\ manifest \in Manifests(loader)
    /\ \E s \in Stores(loader) : disk = s.disk /\ installer_file = s.installer
    /\ lib_i = 1
    /\ vanilla_classpath = ""
    /\ main_class = ""
    /\ classpath = <<>>
    /\ module_path = <<>>
    /\ jvm_args = <<>>
    /\ game_args = <<>>
    /\ cmd = <<>>
    /\ launch_result = "none"

IdleLaunch ==
    /\ loader = "Vanilla" /\ l_pc = "idle" /\ version_libraries = <<>>
    /\ installer_file = "absent" /\ manifest = NoManifest /\ lib_i = 1
    /\ disk = {} /\ vanilla_classpath = "" /\ main_class = ""
    /\ classpath = <<>> /\ module_path = <<>> /\ jvm_args = <<>>
    /\ game_args = <<>> /\ cmd = <<>> /\ launch_result = "none"

\* outside the library loop: no pass has run
IdleFetch == lib_outcome = "None" /\ contacted = <<>>

(***************************************************************************)
(* Two launches in download_libraries that need the same artifact of the   *)
(* same libraries directory (SpecRace).  Each runs the presence check, and *)
(* download_with_hash(url, dest, Some(sha1)) when the check finds nothing. *)
(* The server delivers the right bytes, in NumChunks chunks.  File::create *)
(* opens `dest` with create + truncate: it empties the file `dest` names   *)
(* or makes a new one, and every handle writes at its own offset.          *)
(* remove_file takes the name away; a handle opened earlier then writes to *)
(* a file no path names.                                                   *)
(***************************************************************************)
Installs == {1, 2}

\* all chunks of the artifact, none a hole
Complete(content) ==
    Len(content) = NumChunks /\ \A i \in 1..Len(content) : content[i]

\* what a look at `dest` shows
Observe ==
    IF ~rc_exists THEN "absent"
    ELSE IF Complete(rc_content) THEN "complete" ELSE "partial"

\* write_all of chunk number i at the handle's offset
WriteAt(content, i) ==
    IF Len(content) >= i THEN [content EXCEPT ![i] = TRUE]
    ELSE content \o [k \in 1..(i - 1 - Len(content)) |-> FALSE] \o <<TRUE>>

InitRace ==
    /\ rc_pc = [p \in Installs |-> "exists"]
    /\ rc_retries = [p \in Installs |-> InitialRetries]
    /\ rc_file = [p \in Installs |-> "closed"]
    /\ rc_downloaded = [p \in Installs |-> 0]
    /\ rc_exists \in BOOLEAN
    /\ rc_content = IF rc_exists THEN [k \in 1..NumChunks |-> TRUE] ELSE <<>>
    /\ rc_found = [p \in Installs |-> "none"]
    /\ rc_read = [p \in Installs |-> "none"]
    /\ rc_cp = [p \in Installs |-> "none"]
    /\ rc_result = [p \in Installs |-> "none"]

\* download_libraries: `if !dest.exists()`
PresenceCheck(p) ==
    /\ rc_pc[p] = "exists"
    /\ rc_found' = [rc_found EXCEPT ![p] = Observe]
    /\ rc_pc' = [rc_pc EXCEPT ![p] = IF rc_exists THEN "push" ELSE "send"]
    /\ UNCHANGED <<rc_retries, rc_file, rc_downloaded, rc_exists, rc_content,
                   rc_read, rc_cp, rc_result>>
    /\ UNCHANGED besidesRace

\* download_file: `self.client.get(url).send().await?`
Send(p) ==
    /\ rc_pc[p] = "send"
    /\ \E sent \in BOOLEAN :
         IF sent
         THEN /\ rc_pc' = [rc_pc EXCEPT ![p] = "create"]
              /\ UNCHANGED rc_result
         ELSE /\ rc_pc' = [rc_pc EXCEPT ![p] = "returned"]
              /\ rc_result' = [rc_result EXCEPT ![p] = "Err"]
    /\ UNCHANGED <<rc_retries, rc_file, rc_downloaded, rc_exists, rc_content,
                   rc_found, rc_read, rc_cp>>
    /\ UNCHANGED besidesRace

\* download_file: `File::create(dest)`
Create(p) ==
    /\ rc_pc[p] = "create"
    /\ rc_exists' = TRUE
    /\ rc_content' = <<>>
    /\ rc_file' = [rc_file EXCEPT ![p] = "open"]
    /\ rc_downloaded' = [rc_downloaded EXCEPT ![p] = 0]
    /\ rc_pc' = [rc_pc EXCEPT ![p] = "write"]
    /\ UNCHANGED <<rc_retries, rc_found, rc_read, rc_cp, rc_result>>
    /\ UNCHANGED besidesRace

\* download_file: one pass of `while let Some(chunk) = stream.next().await`
WriteChunk(p) ==
    /\ rc_pc[p] = "write"
    /\ rc_downloaded[p] < NumChunks
    /\ rc_content' = IF rc_file[p] = "open"
                     THEN WriteAt(rc_content, rc_downloaded[p] + 1)
                     ELSE rc_content
    /\ rc_downloaded' = [rc_downloaded EXCEPT ![p] = @ + 1]
    /\ UNCHANGED <<rc_pc, rc_retries, rc_file, rc_exists, rc_found, rc_read, rc_cp,
                   rc_result>>
    /\ UNCHANGED besidesRace

\* download_file: the stream ends, flush, Ok; back in download_with_hash
Flush(p) ==
    /\ rc_pc[p] = "write"
    /\ rc_downloaded[p] = NumChunks
    /\ rc_file' = [rc_file EXCEPT ![p] = "closed"]
    /\ rc_pc' = [rc_pc EXCEPT ![p] = IF rc_retries[p] > 0 THEN "read" ELSE "push"]
    /\ UNCHANGED <<rc_retries, rc_downloaded, rc_exists, rc_content, rc_found,
                   rc_read, rc_cp, rc_result>>
    /\ UNCHANGED besidesRace

\* download_with_hash: `fs::read(dest).await?`, the digest, the comparison
ReadAndCompare(p) ==
    /\ rc_pc[p] = "read"
    /\ rc_read' = [rc_read EXCEPT ![p] = Observe]
    /\ IF ~rc_exists
       THEN /\ rc_pc' = [rc_pc EXCEPT ![p] = "returned"]
            /\ rc_result' = [rc_result EXCEPT ![p] = "Err"]
       ELSE /\ rc_pc' = [rc_pc EXCEPT ![p] =
                             IF Complete(rc_content) THEN "push" ELSE "remove"]
            /\ UNCHANGED rc_result
    /\ UNCHANGED <<rc_retries, rc_file, rc_downloaded, rc_exists, rc_content,
                   rc_found, rc_cp>>
    /\ UNCHANGED besidesRace

\* download_with_hash after a mismatch: `remove_file(dest).await.ok()`,
\* `retries -= 1`, and the next download_file (the last one unverified)
RemoveAndRetry(p) ==
    /\ rc_pc[p] = "remove"
    /\ rc_exists' = FALSE
    /\ rc_content' = <<>>
    /\ rc_file' = [q \in Installs |->
                       IF rc_exists /\ rc_file[q] = "open" THEN "unlinked" ELSE rc_file[q]]
    /\ rc_retries' = [rc_retries EXCEPT ![p] = @ - 1]
    /\ rc_pc' = [rc_pc EXCEPT ![p] = "send"]
    /\ UNCHANGED <<rc_downloaded, rc_found, rc_read, rc_cp, rc_result>>
    /\ UNCHANGED besidesRace

\* download_libraries: `cp.push(dest.display().to_string())`
Push(p) ==
    /\ rc_pc[p] = "push"
    /\ rc_cp' = [rc_cp EXCEPT ![p] = Observe]
    /\ rc_result' = [rc_result EXCEPT ![p] = "Ok"]
    /\ rc_pc' = [rc_pc EXCEPT ![p] = "returned"]
    /\ UNCHANGED <<rc_retries, rc_file, rc_downloaded, rc_exists, rc_content,
                   rc_found, rc_read>>
    /\ UNCHANGED besidesRace

IdleRace ==
    /\ rc_pc = [p \in Installs |-> "idle"]
    /\ rc_retries = [p \in Installs |-> InitialRetries]
    /\ rc_file = [p \in Installs |-> "closed"]
    /\ rc_downloaded = [p \in Installs |-> 0]
    /\ rc_exists = FALSE
    /\ rc_content = <<>>
    /\ rc_found = [p \in Installs |-> "none"]
    /\ rc_read = [p \in Installs |-> "none"]
    /\ rc_cp = [p \in Installs |-> "none"]
    /\ rc_result = [p \in Installs |-> "none"]

(***************************************************************************)
(* MinecraftLauncher::install_forge with extract_forge_libraries and the   *)
(* fallback ForgeInstaller::install_forge of core/minecraft/installer.rs,  *)
(* called twice with the same arguments on the store the first call left   *)
(* (SpecReinstall).                                                        *)
(***************************************************************************)
forge_installer_path ==
    PathJoin(libraries_dir,
             "forge-" \o minecraft_version \o "-" \o forge_version \o "-installer.jar")

\* the maven/*.jar entries of an archive whose destination is not in d, in
\* archive order
NewEmbeddedJars(archive, d) ==
    LET IsJar(name) == StartsWith(name, "maven/") /\ EndsWith(name, ".jar")
        jars == SelectSeq(archive, IsJar)
        dests == [i \in 1..Len(jars) |->
                      PathJoin(libraries_dir, SubSeq(jars[i], Len("maven/") + 1, Len(jars[i])))]
        Missing(path) == path \notin d
    IN  SelectSeq(dests, Missing)

\* byte order of the characters of a version string
CharRank(c) ==
    CASE c = "." -> 46 [] c = "0" -> 48 [] c = "1" -> 49 [] c = "2" -> 50
      [] c = "3" -> 51 [] c = "4" -> 52 [] c = "5" -> 53 [] c = "6" -> 54
      [] c = "7" -> 55 [] c = "8" -> 56 [] c = "9" -> 57

\* `a >= b` on &str
RECURSIVE StrGe(_, _)
StrGe(a, b) ==
    IF Len(b) = 0 THEN TRUE
    ELSE IF Len(a) = 0 THEN FALSE
    ELSE IF CharRank(CharAt(a, 1)) # CharRank(CharAt(b, 1))
    THEN CharRank(CharAt(a, 1)) > CharRank(CharAt(b, 1))
    ELSE StrGe(SubSeq(a, 2, Len(a)), SubSeq(b, 2, Len(b)))

\* the main class of the simplified installation
SimplifiedMainClass(mc_version) ==
    IF StrGe(mc_version, "1.13") THEN "cpw.mods.modlauncher.Launcher"
    ELSE "net.minecraft.launchwrapper.Launch"

\* what extract_install_profile yields: nothing that parses, or a version
\* info
NoProfile == [parsed |-> FALSE, main_class |-> "", libraries |-> <<>>]
Profiles ==
    {NoProfile}
    \cup {[parsed |-> TRUE, main_class |-> "net.minecraftforge.bootstrap.ForgeBootstrap",
           libraries |-> libs] : libs \in {<<>>, <<ForgeCatalogue[3], ForgeCatalogue[4]>>}}

\* what one call of install_forge returned, with the downloads it made
Returned(ok, cp, mc, calls, bad) ==
    [ok |-> ok, classpath |-> cp, main_class |-> mc, fetched |-> calls, failed |-> bad]

\* ForgeInstaller::install_forge: the loop over the libraries of the profile
RECURSIVE ProfileLibraries(_, _, _, _, _, _)
ProfileLibraries(libs, d, outs, entries, calls, bad) ==
    IF Len(libs) = 0
    THEN [ok |-> TRUE, disk |-> d, entries |-> entries, fetched |-> calls, failed |-> bad]
    ELSE LET lib == Head(libs)
             lib_dest == PathJoin(libraries_dir, Self_maven_to_path(lib.name))
             o == IF lib.downloads = "Artifact" /\ lib.url = "" THEN "ErrNoFile"
                  ELSE Head(outs)
         IN  IF lib_dest \in d \/ lib.downloads = "NoArtifact"
             THEN ProfileLibraries(Tail(libs), d, Tail(outs), Append(entries, lib_dest),
                                   calls, bad)
             ELSE IF o = "Ok"
             THEN ProfileLibraries(Tail(libs), d \cup {lib_dest}, Tail(outs),
                                   Append(entries, lib_dest), calls \cup {lib_dest}, bad)
             ELSE IF lib.downloads = "Artifact"
             THEN \* `?` ends the installation
                  [ok |-> FALSE, disk |-> DiskAfter(d, lib_dest, o), entries |-> entries,
                   fetched |-> calls \cup {lib_dest}, failed |-> TRUE]
             ELSE \* no mirror delivered: `continue`
                  ProfileLibraries(Tail(libs), DiskAfter(d, lib_dest, o), Tail(outs),
                                   entries, calls \cup {lib_dest}, TRUE)

InitReinstall ==
    /\ loader = "Forge"
    /\ l_pc = "install_forge"
    /\ version_libraries = <<>>
    /\ manifest \in {m \in Manifests("Forge") : m.jvm = <<>>}
    /\ \E s \in Stores("Forge") : disk = s.disk /\ installer_file = s.installer
    /\ lib_i = 1
    /\ vanilla_classpath = ""
    /\ main_class = ""
    /\ classpath = <<>>
    /\ module_path = <<>>
    /\ jvm_args = <<>>
    /\ game_args = <<>>
    /\ cmd = <<>>
    /\ launch_result = "none"
    /\ profile \in Profiles
    /\ fetched = {}
    /\ failed = FALSE
    /\ installed = <<>>

\* install_forge up to the library loop of extract_forge_libraries: the
\* installer jar, version.json, the embedded jars written and pushed
InstallForge ==
    /\ l_pc = "install_forge"
    /\ LET checked == InstallerAfterCheck(installer_file)
           calls == IF checked = "absent" THEN fetched \cup {forge_installer_path}
                    ELSE fetched
       IN  \E got \in (IF checked = "absent" THEN InstallerDownloads ELSE {checked}) :
             /\ fetched' = calls
             /\ IF got \in DownloadErrors
                THEN /\ installer_file' = IF got = "ErrPartial" THEN "corrupt" ELSE "absent"
                     /\ failed' = TRUE
                     /\ installed' = Append(installed, Returned(FALSE, "", "", calls, TRUE))
                     /\ l_pc' = "returned"
                     /\ UNCHANGED <<disk, main_class, classpath>>
                ELSE IF got = "corrupt"
                THEN \* downloaded, not a valid zip: removed, bail
                     /\ installer_file' = "absent"
                     /\ installed' = Append(installed, Returned(FALSE, "", "", calls, failed))
                     /\ l_pc' = "returned"
                     /\ UNCHANGED <<disk, main_class, classpath, failed>>
                ELSE IF got = "no_manifest"
                THEN \* version.json not found: Ok((Vec::new(), String::new()))
                     /\ installer_file' = got
                     /\ l_pc' = "fallback"
                     /\ UNCHANGED <<disk, main_class, classpath, failed, installed>>
                ELSE /\ installer_file' = got
                     /\ main_class' = manifest.main_class
                     /\ classpath' = NewEmbeddedJars(ForgeArchive, disk)
                     /\ disk' = disk \cup Range(NewEmbeddedJars(ForgeArchive, disk))
                     /\ l_pc' = "extract"
                     /\ UNCHANGED <<failed, installed>>
    /\ lib_i' = 1
    /\ UNCHANGED <<loader, version_libraries, manifest, vanilla_classpath, module_path,
                   jvm_args, game_args, cmd, launch_result, profile>>
    /\ UNCHANGED besidesReinstall

\* one pass of `for lib in &version.libraries` in extract_forge_libraries
ExtractForgeLibrary ==
    /\ l_pc = "extract"
    /\ lib_i <= Len(manifest.libraries)
    /\ \E o \in DownloadOutcomes :
         LET lib == manifest.libraries[lib_i]
             lib_dest == LibDest(lib)
             call == /\ lib.downloads # "NoArtifact"
                     /\ lib_dest \notin disk
                     /\ lib.downloads = "Artifact" => lib.url # ""
             d1 == IF call THEN DiskAfter(disk, lib_dest, o) ELSE disk
             skipped == \/ lib.downloads = "NoArtifact"
                        \/ lib.downloads = "Artifact" /\ call /\ o # "Ok"
         IN  /\ disk' = d1
             /\ fetched' = IF call THEN fetched \cup {lib_dest} ELSE fetched
             /\ failed' = (failed \/ (call /\ o # "Ok"))
             /\ classpath' = IF ~skipped /\ lib_dest \in d1
                             THEN Append(classpath, lib_dest) ELSE classpath
    /\ lib_i' = lib_i + 1
    /\ UNCHANGED <<loader, l_pc, version_libraries, installer_file, manifest,
                   vanilla_classpath, main_class, module_path, jvm_args, game_args,
                   cmd, launch_result, profile, installed>>
    /\ UNCHANGED besidesReinstall

\* install_forge after extract_forge_libraries: its entries, or the fallback
InstallForgeReturn ==
    /\ l_pc = "extract"
    /\ lib_i > Len(manifest.libraries)
    /\ IF Len(classpath) # 0
       THEN /\ installed' = Append(installed,
                                   Returned(TRUE, Join(classpath, ":"), main_class,
                                            fetched, failed))
            /\ l_pc' = "returned"
       ELSE /\ l_pc' = "fallback"
            /\ UNCHANGED installed
    /\ UNCHANGED <<loader, version_libraries, installer_file, manifest, lib_i, disk,
                   vanilla_classpath, main_class, classpath, module_path, jvm_args,
                   game_args, cmd, launch_result, profile, fetched, failed>>
    /\ UNCHANGED besidesReinstall

\* install_forge without entries: ForgeInstaller::install_forge, and the
\* simplified installation when that fails
InstallForgeFallback ==
    /\ l_pc = "fallback"
    /\ \E outs \in [1..Len(profile.libraries) -> DownloadOutcomes] :
         LET r == ProfileLibraries(profile.libraries, disk, outs, <<>>, fetched, failed)
         IN  IF profile.parsed /\ r.ok
             THEN /\ disk' = r.disk
                  /\ fetched' = r.fetched
                  /\ failed' = r.failed
                  /\ installed' = Append(installed,
                                         Returned(TRUE, Join(r.entries, ":"),
                                                  profile.main_class, r.fetched, r.failed))
             ELSE /\ disk' = IF profile.parsed THEN r.disk ELSE disk
                  /\ fetched' = IF profile.parsed THEN r.fetched ELSE fetched
                  /\ failed' = IF profile.parsed THEN r.failed ELSE failed
                  /\ installed' = Append(installed,
                                         Returned(TRUE, forge_installer_path,
                                                  SimplifiedMainClass(minecraft_version),
                                                  fetched', failed'))
    /\ l_pc' = "returned"
    /\ UNCHANGED <<loader, version_libraries, installer_file, manifest, lib_i,
                   vanilla_classpath, main_class, classpath, module_path, jvm_args,
                   game_args, cmd, launch_result, profile>>
    /\ UNCHANGED besidesReinstall

\* the caller installs the same loader version again
InstallAgain ==
    /\ l_pc = "returned"
    /\ Len(installed) = 1
    /\ l_pc' = "install_forge"
    /\ lib_i' = 1
    /\ main_class' = ""
    /\ classpath' = <<>>
    /\ fetched' = {}
    /\ failed' = FALSE
    /\ UNCHANGED <<loader, version_libraries, installer_file, manifest, disk,
                   vanilla_classpath, module_path, jvm_args, game_args, cmd,
                   launch_result, profile, installed>>
    /\ UNCHANGED besidesReinstall

IdleReinstall ==
    /\ profile = NoProfile
    /\ fetched = {}
    /\ failed = FALSE
    /\ installed = <<>>

(***************************************************************************)
(* DownloadManager::download_many (SpecBatch): the downloads as a stream,  *)
(* mapped to download_file futures, buffer_unordered, collected, and the   *)
(* collected results turned into one Result.                               *)
(***************************************************************************)
\* `.buffer_unordered(4)`
BufferLimit == 4

\* what one download_file of the batch returns
BatchOutcomes == {"Ok", "Err"}

\* the batches: up to MaxDownloads transfers, each with its outcome
Batches == UNION {[1..n -> BatchOutcomes] : n \in 0..MaxDownloads}

\* (variant: only the result collected last decides)
CollectResultsLastOnly(results) ==
    IF Len(results) = 0 THEN "Ok" ELSE results[Len(results)]

\* `.into_iter().collect::<Result<Vec<_>>>()?`: the first Err, else Ok
RECURSIVE CollectResults(_)
CollectResults(results) ==
    IF Len(results) = 0 THEN "Ok"
    ELSE IF Head(results) = "Err" THEN "Err"
    ELSE CollectResults(Tail(results))

InitBatch ==
    /\ downloads \in Batches
    /\ dm_next = 1
    /\ dm_in_flight = {}
    /\ dm_finished = <<>>
    /\ dm_peak = 0
    /\ dm_result = "none"

\* buffer_unordered takes the next future from the stream while fewer than
\* the limit are in its queue
Schedule ==
    /\ dm_result = "none"
    /\ dm_next <= Len(downloads)
    /\ Cardinality(dm_in_flight) < BufferLimit
    /\ dm_in_flight' = dm_in_flight \cup {dm_next}
    /\ dm_next' = dm_next + 1
    /\ dm_peak' = IF Cardinality(dm_in_flight) + 1 > dm_peak
                  THEN Cardinality(dm_in_flight) + 1 ELSE dm_peak
    /\ UNCHANGED <<downloads, dm_finished, dm_result>>
    /\ UNCHANGED besidesBatch

\* one queued download_file completes; the queue is polled only when it is
\* full or the stream is exhausted
FinishTransfer ==
    /\ dm_result = "none"
    /\ Cardinality(dm_in_flight) = BufferLimit \/ dm_next > Len(downloads)
    /\ \E i \in dm_in_flight :
         /\ dm_in_flight' = dm_in_flight \ {i}
         /\ dm_finished' = Append(dm_finished, downloads[i])
    /\ UNCHANGED <<downloads, dm_next, dm_peak, dm_result>>
    /\ UNCHANGED besidesBatch

\* the stream ends: `.collect::<Vec<_>>().await`, then the Result
Collect ==
    /\ dm_result = "none"
    /\ dm_next > Len(downloads)
    /\ dm_in_flight = {}
    /\ dm_result' = CollectResults(dm_finished)
    /\ UNCHANGED <<downloads, dm_next, dm_in_flight, dm_finished, dm_peak>>
    /\ UNCHANGED besidesBatch

IdleBatch ==
    /\ downloads = <<>>
    /\ dm_next = 1
    /\ dm_in_flight = {}
    /\ dm_finished = <<>>
    /\ dm_peak = 0
    /\ dm_result = "idle"

(***************************************************************************)
(* get_loader_versions of the metadata clients (SpecLoaderVersions):       *)
(* src/src/api/fabric.rs, quilt.rs, forge.rs, neoforge.rs.                 *)
(***************************************************************************)
MaxIndex == 2
MaxMaven == 2

Clients == {"Fabric", "Quilt", "Forge", "NeoForge"}

GameVersions == {"1.19.4", "1.20.1", "1.20.4", "1.21", "1.21.1"}

\* the two documents of the Forge site; the other clients only read "meta"
Endpoints == {"meta", "promotions"}

\* entries of a meta server: a loader version published for a game version
IndexEntries ==
    [mc_version : {"1.19.4", "1.21.1"}, version : {"0.16.9", "1.21.1-52.0.3"}]

\* versions as the NeoForge Maven lists them: major.minor.build[-suffix]
MavenVersions ==
    {"20.4.233", "20.6.119", "21.0.167", "21.1.77", "21.1.5-beta", "21.10.5",
     "47.1.3"}

SeqsUpTo(S, n) == UNION {[1..k -> S] : k \in 0..n}

\* `s.parse::<u32>()`: the value, or -1 for Err (an optional '+', then
\* digits). Ten digits and more are read as the overflow Err; the versions
\* here have far shorter segments.
MaxDigits == 9

DigitValue(c) ==
    CASE c = "0" -> 0 [] c = "1" -> 1 [] c = "2" -> 2 [] c = "3" -> 3
      [] c = "4" -> 4 [] c = "5" -> 5 [] c = "6" -> 6 [] c = "7" -> 7
      [] c = "8" -> 8 [] c = "9" -> 9 [] OTHER -> -1

RECURSIVE ParseDigits(_, _)
ParseDigits(s, acc) ==
    IF Len(s) = 0 THEN acc
    ELSE IF DigitValue(CharAt(s, 1)) < 0 THEN -1
    ELSE ParseDigits(SubSeq(s, 2, Len(s)), acc * 10 + DigitValue(CharAt(s, 1)))

ParseU32(s) ==
    LET digits == IF StartsWith(s, "+") THEN SubSeq(s, 2, Len(s)) ELSE s
    IN IF Len(digits) = 0 \/ Len(digits) > MaxDigits THEN -1
       ELSE ParseDigits(digits, 0)

\* `.filter_map(|s| s.parse::<u32>().ok()).collect()`
ParseSegments(segments) ==
    LET parsed == [i \in 1..Len(segments) |-> ParseU32(segments[i])]
    IN SelectSeq(parsed, LAMBDA n : n >= 0)

\* the loop shared by the comparators: segment by segment, a missing
\* segment read as 0
RECURSIVE CompareFrom(_, _, _)
CompareFrom(a_parts, b_parts, i) ==
    IF i > Len(a_parts) /\ i > Len(b_parts) THEN "Equal"
    ELSE LET a_part == IF i <= Len(a_parts) THEN a_parts[i] ELSE 0
             b_part == IF i <= Len(b_parts) THEN b_parts[i] ELSE 0
         IN IF a_part < b_part THEN "Less"
            ELSE IF a_part > b_part THEN "Greater"
            ELSE CompareFrom(a_parts, b_parts, i + 1)

\* NeoForgeClient::compare_neoforge_versions: split on '.' and '-'
compare_neoforge_versions(a, b) ==
    CompareFrom(ParseSegments(Split(Replace(a, "-", "."), ".")),
                ParseSegments(Split(Replace(b, "-", "."), ".")), 1)

\* `versions.sort_by(|a, b| compare_neoforge_versions(&b.version, &a.version))`
\* (a stable sort, newest first)
RECURSIVE InsertNewestFirst(_, _)
InsertNewestFirst(sorted, v) ==
    IF Len(sorted) = 0 THEN <<v>>
    ELSE IF compare_neoforge_versions(Head(sorted), v) = "Less"
    THEN <<v>> \o sorted
    ELSE <<Head(sorted)>> \o InsertNewestFirst(Tail(sorted), v)

RECURSIVE SortNewestFirst(_)
SortNewestFirst(versions) ==
    IF Len(versions) = 0 THEN <<>>
    ELSE InsertNewestFirst(SortNewestFirst(SubSeq(versions, 1, Len(versions) - 1)),
                           versions[Len(versions)])

\* reqwest's error, from `self.client.get_json(..).await?`
NetworkError == "reqwest::Error"

LvOk(versions) == [status |-> "Ok", versions |-> versions, error |-> ""]
LvErr(error) == [status |-> "Err", versions |-> <<>>, error |-> error]

\* what the meta server answers for /versions/loader/{minecraft_version}
ServerAnswer(game) ==
    LET listed == SelectSeq(lv_index, LAMBDA e : e.mc_version = game)
    IN [i \in 1..Len(listed) |-> listed[i].version]

\* FabricClient::get_loader_versions and QuiltClient::get_loader_versions
MetaGetLoaderVersions ==
    IF "meta" \in unreachable THEN LvErr(NetworkError)
    ELSE LvOk(ServerAnswer(lv_game))

\* the raw Forge version without its "<mc>-" prefix
ForgeVersionOf(mc, raw) ==
    IF StartsWith(raw, mc \o "-")
    THEN SubSeq(raw, Len(mc) + 2, Len(raw)) ELSE raw

\* ForgeClient::get_versions_from_new_api / get_versions_from_legacy_api
ForgeAllVersions(doc) ==
    [i \in 1..Len(doc) |->
        [mc_version |-> doc[i].mc_version,
         forge_version |-> ForgeVersionOf(doc[i].mc_version, doc[i].version)]]

\* ForgeClient::get_all_versions: the new API, else the promotions
ForgeGetAllVersions ==
    IF "meta" \notin unreachable THEN LvOk(ForgeAllVersions(lv_index))
    ELSE IF "promotions" \in unreachable THEN LvErr(NetworkError)
    ELSE LvOk(ForgeAllVersions(promos))

\* ForgeClient::get_loader_versions
ForgeGetLoaderVersions ==
    LET all == ForgeGetAllVersions
        filtered == SelectSeq(all.versions,
                              LAMBDA v : v.mc_version = lv_game)
    IN IF all.status = "Err" THEN all
       ELSE IF Len(filtered) = 0
       THEN LvErr("Keine Forge-Versionen für Minecraft " \o lv_game
                  \o " gefunden")
       ELSE LvOk([i \in 1..Len(filtered) |-> filtered[i].forge_version])

\* (variant: the prefix without its closing dot)
ExpectedPrefixNoDot(minor, patch) == minor \o "." \o patch

\* `expected` of filter_matching_versions
ExpectedPrefix(minor, patch) == minor \o "." \o patch \o "."

\* NeoForgeClient::filter_matching_versions
filter_matching_versions(all_versions, mc_version) ==
    LET mc_parts == Split(mc_version, ".")
    IN IF Len(mc_parts) < 2 THEN <<>>
       ELSE LET minor == mc_parts[2]
                patch == IF Len(mc_parts) >= 3 THEN mc_parts[3] ELSE "0"
                parsed == IF ParseU32(minor) < 0 THEN 0 ELSE ParseU32(minor)
            IN IF minor = "20" /\ patch = "1" THEN <<>>
               ELSE IF parsed >= 20
               THEN SelectSeq(all_versions,
                        LAMBDA v : StartsWith(v, ExpectedPrefix(minor, patch)))
               ELSE <<>>

\* NeoForgeClient::get_all_versions_from_maven
GetAllVersionsFromMaven ==
    IF "meta" \in unreachable THEN LvErr(NetworkError)
    ELSE IF Len(maven_versions) = 0
    THEN LvErr("Keine NeoForge-Versionen in Maven-Metadata gefunden")
    ELSE LvOk(maven_versions)

\* NeoForgeClient::get_loader_versions
NeoForgeGetLoaderVersions ==
    LET all == GetAllVersionsFromMaven
        matching == filter_matching_versions(all.versions, lv_game)
    IN IF all.status = "Err" THEN all
       ELSE IF Len(matching) = 0
       THEN LvErr("Keine NeoForge-Versionen für Minecraft "
                  \o lv_game \o " gefunden")
       ELSE LvOk(SortNewestFirst(matching))

NoLvResult == [status |-> "none", versions |-> <<>>, error |-> ""]

InitLoaderVersions ==
    /\ lv_client \in Clients
    /\ lv_game \in GameVersions
    /\ unreachable \in SUBSET Endpoints
    /\ lv_client # "Forge" => "promotions" \notin unreachable
    /\ lv_index \in IF lv_client = "NeoForge" THEN {<<>>}
                    ELSE SeqsUpTo(IndexEntries, MaxIndex)
    /\ promos \in IF lv_client = "Forge"
                  THEN SeqsUpTo(IndexEntries, 1) ELSE {<<>>}
    /\ maven_versions \in IF lv_client = "NeoForge"
                          THEN SeqsUpTo(MavenVersions, MaxMaven) ELSE {<<>>}
    /\ lv_result = NoLvResult

FabricCall ==
    /\ lv_client = "Fabric"
    /\ lv_result.status = "none"
    /\ lv_result' = MetaGetLoaderVersions
    /\ UNCHANGED <<lv_client, lv_game, unreachable, lv_index, promos,
                   maven_versions>>
    /\ UNCHANGED besidesLoaderVersions

QuiltCall ==
    /\ lv_client = "Quilt"
    /\ lv_result.status = "none"
    /\ lv_result' = MetaGetLoaderVersions
    /\ UNCHANGED <<lv_client, lv_game, unreachable, lv_index, promos,
                   maven_versions>>
    /\ UNCHANGED besidesLoaderVersions

ForgeCall ==
    /\ lv_client = "Forge"
    /\ lv_result.status = "none"
    /\ lv_result' = ForgeGetLoaderVersions
    /\ UNCHANGED <<lv_client, lv_game, unreachable, lv_index, promos,
                   maven_versions>>
    /\ UNCHANGED besidesLoaderVersions

NeoForgeCall ==
    /\ lv_client = "NeoForge"
    /\ lv_result.status = "none"
    /\ lv_result' = NeoForgeGetLoaderVersions
    /\ UNCHANGED <<lv_client, lv_game, unreachable, lv_index, promos,
                   maven_versions>>
    /\ UNCHANGED besidesLoaderVersions

IdleLoaderVersions ==
    /\ lv_client = "idle"
    /\ lv_game = ""
    /\ unreachable = {}
    /\ lv_index = <<>>
    /\ promos = <<>>
    /\ maven_versions = <<>>
    /\ lv_result = [status |-> "idle", versions |-> <<>>, error |-> ""]

(***************************************************************************)
(* The version comparators and get_recommended_loader (SpecCompare):       *)
(* src/src/api/forge.rs, forge_compat.rs, neoforge.rs.                     *)
(***************************************************************************)
\* dotted version strings with numeric segments only
VersionStrings ==
    {"1.2", "1.1.5", "1.19.4", "1.20", "1.20.1", "1.20.9", "1.20.10", "1.21",
     "1.21.0", "2.0", "26.1"}

\* str::trim_start_matches(prefix): the prefix removed as often as it leads
RECURSIVE TrimStartMatches(_, _)
TrimStartMatches(s, prefix) ==
    IF StartsWith(s, prefix)
    THEN TrimStartMatches(SubSeq(s, Len(prefix) + 1, Len(s)), prefix)
    ELSE s

\* `parse` of compare_versions and compare_mc_versions
ParseTrimmed(v) == ParseSegments(Split(TrimStartMatches(v, "1."), "."))

\* ForgeClient::compare_version_strings
compare_version_strings(a, b) ==
    CompareFrom(ParseSegments(Split(a, ".")), ParseSegments(Split(b, ".")), 1)

\* ForgeCompatClient::compare_versions
compare_versions(a, b) == CompareFrom(ParseTrimmed(a), ParseTrimmed(b), 1)

\* NeoForgeClient::compare_mc_versions
compare_mc_versions(a, b) == CompareFrom(ParseTrimmed(a), ParseTrimmed(b), 1)

\* ForgeCompatClient::get_recommended_loader
get_recommended_loader(game) ==
    IF compare_versions(game, "1.21.0") # "Less" THEN "NeoForge"
    ELSE IF compare_versions(game, "1.20.1") # "Less" THEN "NeoForge"
    ELSE "Forge"

InitCompare ==
    /\ cmp_a \in VersionStrings
    /\ cmp_b \in VersionStrings
    /\ forge_order = "none"
    /\ compat_order = "none"
    /\ mc_order = "none"
    /\ recommended = "none"

CompareVersionStrings ==
    /\ forge_order = "none"
    /\ forge_order' = compare_version_strings(cmp_a, cmp_b)
    /\ UNCHANGED <<cmp_a, cmp_b, compat_order, mc_order, recommended>>
    /\ UNCHANGED besidesCompare

CompareVersions ==
    /\ compat_order = "none"
    /\ compat_order' = compare_versions(cmp_a, cmp_b)
    /\ UNCHANGED <<cmp_a, cmp_b, forge_order, mc_order, recommended>>
    /\ UNCHANGED besidesCompare

CompareMcVersions ==
    /\ mc_order = "none"
    /\ mc_order' = compare_mc_versions(cmp_a, cmp_b)
    /\ UNCHANGED <<cmp_a, cmp_b, forge_order, compat_order, recommended>>
    /\ UNCHANGED besidesCompare

GetRecommendedLoader ==
    /\ recommended = "none"
    /\ recommended' = get_recommended_loader(cmp_a)
    /\ UNCHANGED <<cmp_a, cmp_b, forge_order, compat_order, mc_order>>
    /\ UNCHANGED besidesCompare

IdleCompare ==
    /\ cmp_a = ""
    /\ cmp_b = ""
    /\ forge_order = "idle"
    /\ compat_order = "idle"
    /\ mc_order = "idle"
    /\ recommended = "idle"

(***************************************************************************)
(* The loader version a launch installs (SpecResolve).  A profile names a   *)
(* loader and a version of it; launch_neoforge_or_forge resolves "latest"   *)
(* and the empty string through the loader's metadata client,               *)
(* install_fabric and install_quilt take the game version only and ask the  *)
(* metadata client every time.                                              *)
(***************************************************************************)
MaxListed == 2

\* loader versions a metadata client can list, and what a profile can hold
ListedVersions == {"0.16.9", "0.16.5", "0.15.11"}
ProfileVersions == {"latest", "", "0.16.5", "0.14.0"}

ResolveOk(version) == [status |-> "Ok", version |-> version]
ResolveErr(error) == [status |-> "Err", version |-> "", error |-> error]
NotResolved == [status |-> "none", version |-> ""]

\* `client.get_loader_versions(mc_version).await?` and `versions.first()
\* .ok_or_else(..)?`: resolve_latest_forge_version,
\* resolve_latest_neoforge_version and the head of install_fabric /
\* install_quilt
FirstListed(answer, loader_name) ==
    IF answer.status = "Err" THEN ResolveErr(answer.error)
    ELSE IF answer.versions = <<>>
    THEN ResolveErr("No " \o loader_name \o " version found")
    ELSE ResolveOk(Head(answer.versions))

InitResolve ==
    /\ rv_loader \in {"Fabric", "Quilt", "Forge", "NeoForge"}
    /\ rv_version \in ProfileVersions
    /\ loader_versions \in {LvErr(NetworkError)}
                           \cup {LvOk(s) : s \in SeqsUpTo(ListedVersions, MaxListed)}
    /\ loader_version = NotResolved

\* launch_neoforge_or_forge: `let loader_version = if profile.loader.version
\* == "latest" || profile.loader.version.is_empty() { .. } else { .. }`
ResolveForgeOrNeoForge ==
    /\ loader_version = NotResolved
    /\ rv_loader \in {"Forge", "NeoForge"}
    /\ loader_version' = IF rv_version = "latest" \/ rv_version = ""
                         THEN FirstListed(loader_versions, rv_loader)
                         ELSE ResolveOk(rv_version)
    /\ UNCHANGED <<rv_loader, rv_version, loader_versions>>
    /\ UNCHANGED besidesResolve

\* launch calls install_fabric(version, &libraries_dir): the loader is the
\* first one the Fabric meta lists for the game version
ResolveFabric ==
    /\ loader_version = NotResolved
    /\ rv_loader = "Fabric"
    /\ loader_version' = FirstListed(loader_versions, rv_loader)
    /\ UNCHANGED <<rv_loader, rv_version, loader_versions>>
    /\ UNCHANGED besidesResolve

\* launch calls install_quilt(version, &libraries_dir)
ResolveQuilt ==
    /\ loader_version = NotResolved
    /\ rv_loader = "Quilt"
    /\ loader_version' = FirstListed(loader_versions, rv_loader)
    /\ UNCHANGED <<rv_loader, rv_version, loader_versions>>
    /\ UNCHANGED besidesResolve

IdleResolve ==
    /\ rv_loader = "Vanilla" /\ rv_version = ""
    /\ loader_versions = LvOk(<<>>) /\ loader_version = NotResolved

(***************************************************************************)
(* ForgeCompatClient::is_loader_available, asked about the game version     *)
(* cmp_a (SpecCompare).                                                     *)
(***************************************************************************)
\* NeoForgeClient::is_available_for_version
is_available_for_version(mc_version) ==
    compare_mc_versions(mc_version, "1.20.2") # "Less"

\* ForgeCompatClient::is_loader_available
is_loader_available(l, game) ==
    IF l = "Forge" THEN compare_versions(game, "1.5.2") # "Less"
    ELSE is_available_for_version(game)

NotAsked == [loader |-> "none", value |-> FALSE]

IsLoaderAvailable ==
    /\ available = NotAsked
    /\ cmp_a \in VersionStrings
    /\ \E l \in {"Forge", "NeoForge"} :
         available' = [loader |-> l, value |-> is_loader_available(l, cmp_a)]
    /\ UNCHANGED besidesAvailable

IdleAvailable == available = NotAsked

(***************************************************************************)
(* ForgeCompatClient::get_all_supported_versions (SpecSupported): the game  *)
(* versions of ForgeClient and of NeoForgeClient, one list after the other, *)
(* sorted and passed through Vec::dedup.                                    *)
(***************************************************************************)
MaxForgeGames == 3
MaxNeoForge == 2

\* game versions the Forge index names, NeoForge versions its Maven lists
ForgeGames == {"1.21.1", "1.21", "1.20.1"}
NeoForgeFeed == {"21.1.77", "21.0.167", "20.4.233"}

\* `known_versions` of NeoForgeClient::get_supported_game_versions
known_versions ==
    << "1.21.3", "1.21.2", "1.21.1", "1.21.0", "1.21",
       "1.20.6", "1.20.5", "1.20.4", "1.20.3", "1.20.2" >>

\* the comparator of a sort: ForgeClient::compare_version_strings or
\* ForgeCompatClient::compare_versions
CompareBy(by, a, b) ==
    IF by = "ForgeClient" THEN compare_version_strings(a, b) ELSE compare_versions(a, b)

\* `v.sort_by(|a, b| compare(b, a))`: a stable sort, newest first
RECURSIVE InsertDescending(_, _, _)
InsertDescending(by, sorted, v) ==
    IF Len(sorted) = 0 THEN <<v>>
    ELSE IF CompareBy(by, Head(sorted), v) = "Less"
    THEN <<v>> \o sorted
    ELSE <<Head(sorted)>> \o InsertDescending(by, Tail(sorted), v)

RECURSIVE SortDescending(_, _)
SortDescending(by, v) ==
    IF Len(v) = 0 THEN <<>>
    ELSE InsertDescending(by, SortDescending(by, SubSeq(v, 1, Len(v) - 1)), v[Len(v)])

\* Vec::dedup: of consecutive equal elements the first is kept
RECURSIVE VecDedup(_)
VecDedup(v) ==
    IF Len(v) <= 1 THEN v
    ELSE LET init == VecDedup(SubSeq(v, 1, Len(v) - 1))
         IN  IF v[Len(v)] = init[Len(init)] THEN init ELSE Append(init, v[Len(v)])

\* ForgeClient::get_supported_game_versions
ForgeSupportedGameVersions ==
    IF "Forge" \in sv_unreachable THEN LvErr(NetworkError)
    ELSE LvOk(VecDedup(SortDescending("ForgeClient", sv_index)))

\* NeoForgeClient::get_supported_game_versions
NeoForgeSupportedGameVersions ==
    IF "NeoForge" \in sv_unreachable THEN LvErr(NetworkError)
    ELSE IF Len(sv_maven) = 0
    THEN LvErr("Keine NeoForge-Versionen in Maven-Metadata gefunden")
    ELSE LvOk(SelectSeq(known_versions,
                        LAMBDA mc : Len(filter_matching_versions(sv_maven, mc)) > 0))

\* ForgeCompatClient::get_all_supported_versions
get_all_supported_versions ==
    LET forge_versions == ForgeSupportedGameVersions
        neoforge_versions == NeoForgeSupportedGameVersions
        versions == (IF forge_versions.status = "Ok" THEN forge_versions.versions ELSE <<>>)
                    \o (IF neoforge_versions.status = "Ok"
                        THEN neoforge_versions.versions ELSE <<>>)
    IN  LvOk(VecDedup(SortDescending("ForgeCompatClient", versions)))

InitSupported ==
    /\ sv_index \in SeqsUpTo(ForgeGames, MaxForgeGames)
    /\ sv_maven \in SeqsUpTo(NeoForgeFeed, MaxNeoForge)
    /\ sv_unreachable \in SUBSET {"Forge", "NeoForge"}
    /\ supported = NoLvResult

GetAllSupportedVersions ==
    /\ supported = NoLvResult
    /\ sv_index \in SeqsUpTo(ForgeGames, MaxForgeGames)
    /\ supported' = get_all_supported_versions
    /\ UNCHANGED <<sv_index, sv_maven, sv_unreachable>>
    /\ UNCHANGED besidesSupported

IdleSupported ==
    /\ sv_index = <<"idle">> /\ sv_maven = <<>> /\ sv_unreachable = {}
    /\ supported = NoLvResult

(***************************************************************************)
(* Properties of the install result and the command line (SpecLaunch).     *)
(***************************************************************************)
\* the file basename of a path
Basename(path) == LET parts == Split(path, "/") IN parts[Len(parts)]

Basenames(entries) == {Basename(entries[i]) : i \in 1..Len(entries)}

ModularLoader == loader \in {"Forge", "NeoForge"}

\* the entries of the -cp value of the command line
CpEntries == Split(ArgAfter(cmd, "-cp"), ":")

\* the same without the blank entries an empty vanilla classpath leaves
CpJars == LET NonEmpty(e) == Len(e) > 0 IN SelectSeq(CpEntries, NonEmpty)

\* C1 as stated: for the install result of a Forge or NeoForge installer and
\* for the command line assembled from it, no jar basename is both on the
\* module-path (-p) and on the classpath (-cp).
C1_Original ==
    /\ ( ModularLoader /\ l_pc \in {"installed", "launched"} )
       => Basenames(module_path) \cap Basenames(classpath) = {}
    /\ ( ModularLoader /\ l_pc = "launched" /\ HasArg(cmd, "-p") )
       => Basenames(Split(ArgAfter(cmd, "-p"), ":")) \cap Basenames(CpEntries) = {}

\* C2 as stated: every library of the Forge installer that is on disk after
\* its pass of the loop is on exactly one of module-path and classpath, on the
\* module-path when its name carries an allow-list fragment and no exclusion
\* fragment, on the classpath otherwise.
C2_Original ==
    ( loader = "Forge" /\ l_pc \in {"libraries", "installed", "launched"} )
    => \A i \in 1..(lib_i - 1) :
         LET lib == manifest.libraries[i]
             p == LibDest(lib)
         IN  ( lib.downloads # "NoArtifact" /\ p \in disk )
             => /\ (p \in Range(module_path)) # (p \in Range(classpath))
                /\ (p \in Range(module_path)) <=> ForgeInstallerIsModule(lib.name)

\* C6: in the -cp value of the command line the client jar is the first entry
\* for Forge and NeoForge and the last entry for Fabric, Quilt and Vanilla.
C6_ClientJarPosition ==
    l_pc = "launched"
    => IF ModularLoader
       THEN CpEntries[1] = client_jar
       ELSE CpEntries[Len(CpEntries)] = client_jar

\* C6 witness: a NeoForge launch whose classpath holds loader and vanilla jars
\* besides the client jar.
C6_Witness ==
    /\ l_pc = "launched" /\ loader = "NeoForge"
    /\ Len(classpath) > 0 /\ Len(vanilla_classpath) > 0
    /\ Len(CpEntries) >= 3

\* what the launcher concatenates for -cp, blank entries left out
CombinedEntries ==
    LET NonEmpty(e) == Len(e) > 0
    IN  <<client_jar>> \o classpath \o SelectSeq(Split(vanilla_classpath, ":"), NonEmpty)

\* of each basename the first entry that carries it, in order
FirstOfEachBasename(entries) ==
    Pick(entries,
         {i \in 1..Len(entries) :
              \A j \in 1..(i - 1) : Basename(entries[j]) # Basename(entries[i])},
         1)

NoBasenameTwice(entries) ==
    \A i \in 1..Len(entries), j \in 1..Len(entries) :
        i # j => Basename(entries[i]) # Basename(entries[j])

\* C7 as stated: the -cp value of every Forge/NeoForge launch holds of each
\* basename the first entry that carries it, in input order, and so no
\* basename twice.
C7_Original ==
    ( ModularLoader /\ l_pc = "launched" )
    => /\ CpJars = FirstOfEachBasename(CombinedEntries)
       /\ NoBasenameTwice(CpJars)

\* C7 amended: when the install result's classpath is not empty, the -cp value
\* of a Forge/NeoForge launch holds of each basename the first entry that
\* carries it, in input order, and no basename twice (with an empty install
\* classpath the value is not deduplicated).
C7_DedupWhenLoaderClasspath ==
    ( ModularLoader /\ l_pc = "launched" /\ Len(classpath) > 0 )
    => /\ CpJars = FirstOfEachBasename(CombinedEntries)
       /\ NoBasenameTwice(CpJars)

\* C7 witness: a launch whose deduplication dropped an entry that came again.
C7_Witness ==
    /\ ModularLoader /\ l_pc = "launched" /\ Len(classpath) > 0
    /\ Len(CpJars) < Len(CombinedEntries)
    /\ CpJars[1] = client_jar

(***************************************************************************)
(* Properties of DownloadManager (checked under SpecDownload).             *)
(***************************************************************************)
\* Two hex digests name the same SHA-1 (hex is case-insensitive).
SameDigest(content, expected) ==
    /\ content \in Bytes
    /\ ToLowercase(Sha1Hex(content)) = ToLowercase(expected)

HashVerifiedCall == dl_call = "download_with_hash" /\ expected_sha1 # "None"

\* The first n transfers delivered whole bodies with a wrong digest.
FirstMismatch(n) ==
    /\ Len(transfers) >= n
    /\ \A k \in 1..n : TransferOk(transfers[k]) /\ ~SameDigest(transfers[k], expected_sha1)

\* C3: in a hash-verified download, when the first N transfers (N < 3) deliver
\* bytes with a wrong digest and transfer N+1 delivers matching bytes, the call
\* has returned Ok and the file at dest holds the matching bytes.
C3_HashRetryConverges ==
    \A n \in 0..2 :
        ( /\ HashVerifiedCall
          /\ Len(transfers) = n + 1
          /\ FirstMismatch(n)
          /\ SameDigest(transfers[n + 1], expected_sha1) )
        => ( /\ dl_pc = "done"
             /\ dl_result = "Ok"
             /\ dest = transfers[n + 1]
             /\ SameDigest(dest, expected_sha1) )

\* C3 witness: two wrong bodies, then the right one, against an upper-case digest.
C3_Witness ==
    /\ HashVerifiedCall /\ expected_sha1 = "AA"
    /\ Len(transfers) = 3 /\ FirstMismatch(2)
    /\ SameDigest(transfers[3], expected_sha1)
    /\ dl_result = "Ok"

C5_Original ==
    /\ ( HashVerifiedCall /\ dl_pc = "done" /\ dl_result = "Err" )
       => Len(transfers) >= 3
    /\ ( dl_call = "download_file" /\ dl_pc = "done" /\ ~TransferOk(transfers[1]) )
       => ( dl_result = "Err" /\ Len(transfers) = 1 )

(***************************************************************************)
(* Properties of deduplicate_classpath (checked under SpecDedup).          *)
(***************************************************************************)
\* C8: deduplicating an already deduplicated classpath changes nothing.
C8_DedupIdempotent ==
    dd_pc = "twice" => dd_twice = dd_once

\* C8 witness: a second pass over a result that lost a duplicate and a blank entry.
C8_Witness ==
    /\ dd_pc = "twice"
    /\ Len(Split(dd_in, ":")) = 3
    /\ Len(Split(dd_once, ":")) = 1
    /\ Len(dd_once) > 0

(***************************************************************************)
(* Properties of two concurrent launches (SpecRace).                       *)
(***************************************************************************)
\* C9: when two installs need the same artifact of the same libraries
\* directory, neither ever finds by its presence check, reads back, or puts
\* on its classpath a partially written file.
C9_Original ==
    \A p \in Installs :
        /\ rc_found[p] # "partial"
        /\ rc_read[p] # "partial"
        /\ rc_cp[p] # "partial"

(***************************************************************************)
(* Properties of a repeated install (SpecReinstall).                       *)
(***************************************************************************)
\* C10: a second install with the same inputs, after a first one in which
\* every download succeeded, makes no download and returns the same main
\* class and classpath as the first.
C10_Original ==
    (Len(installed) = 2 /\ installed[1].ok /\ ~installed[1].failed)
        => /\ installed[2].fetched = {}
           /\ installed[2].ok
           /\ installed[2].classpath = installed[1].classpath
           /\ installed[2].main_class = installed[1].main_class

(***************************************************************************)
(* Properties of download_many (SpecBatch).                                *)
(***************************************************************************)
\* C11: download_many never has more than 4 transfers in flight, returns
\* only after every scheduled transfer has finished (a failed one cancels
\* none), and returns Err exactly when at least one transfer failed.
C11_BoundedBatch ==
    /\ Cardinality(dm_in_flight) <= 4
    /\ dm_peak <= 4
    /\ dm_result # "none" =>
         /\ Len(dm_finished) = Len(downloads)
         /\ dm_in_flight = {}
         /\ dm_result = "Err" <=> \E i \in 1..Len(downloads) : downloads[i] = "Err"
         /\ dm_result = "Ok" <=> \A i \in 1..Len(downloads) : downloads[i] = "Ok"

\* a batch of more than four transfers, four of them in flight at once, whose
\* first finished transfer failed and whose last succeeded, has returned Err
C11_Witness ==
    /\ dm_result = "Err"
    /\ Len(downloads) > 4
    /\ dm_peak = 4
    /\ dm_finished[1] = "Err"
    /\ dm_finished[Len(dm_finished)] = "Ok"

\* ---- get_loader_versions ----
\* a release of the client's loader exists for the requested game version
ReleaseExists ==
    CASE lv_client \in {"Fabric", "Quilt"} ->
            \E i \in 1..Len(lv_index) : lv_index[i].mc_version = lv_game
      [] lv_client = "Forge" ->
            LET doc == IF "meta" \in unreachable THEN promos ELSE lv_index
            IN \E i \in 1..Len(doc) : doc[i].mc_version = lv_game
      [] OTHER ->
            Len(filter_matching_versions(maven_versions, lv_game)) > 0

\* every request the call makes is answered
Answered ==
    IF lv_client = "Forge" THEN unreachable # Endpoints
    ELSE "meta" \notin unreachable

\* C12 (as stated): get_loader_versions never returns a successful empty
\* list; with no release for the requested game version it returns an error,
\* distinct from the network error, that names the loader and the game version.
C12_Original ==
    lv_result.status \in {"Ok", "Err"} =>
        /\ lv_result.status = "Ok" => Len(lv_result.versions) > 0
        /\ Answered /\ ~ReleaseExists =>
              /\ lv_result.status = "Err"
              /\ lv_result.error # NetworkError
              /\ Contains(lv_result.error, lv_client)
              /\ Contains(lv_result.error, lv_game)

\* the first two dotted components of a feed version are x and y
FirstTwoAre(version, x, y) ==
    LET parts == Split(version, ".")
    IN Len(parts) >= 2 /\ ParseU32(parts[1]) = x /\ ParseU32(parts[2]) = y

\* X and Y of the game version 1.X.Y, Y = 0 when absent
GameMinor == ParseU32(Split(lv_game, ".")[2])
GamePatch ==
    IF Len(Split(lv_game, ".")) >= 3 THEN ParseU32(Split(lv_game, ".")[3]) ELSE 0

\* the versions the NeoForge call selected (none when it reports not-found)
Selected == IF lv_result.status = "Ok" THEN lv_result.versions ELSE <<>>

\* how often v occurs in a list
Occurrences(list, v) == Cardinality({i \in 1..Len(list) : list[i] = v})

RECURSIVE SegmentWise(_, _)
SegmentWise(a_segments, b_segments) ==
    IF Len(a_segments) = 0 /\ Len(b_segments) = 0 THEN "Equal"
    ELSE LET x == IF Len(a_segments) = 0 THEN 0 ELSE ParseU32(Head(a_segments))
             y == IF Len(b_segments) = 0 THEN 0 ELSE ParseU32(Head(b_segments))
         IN IF x < y THEN "Less"
            ELSE IF x > y THEN "Greater"
            ELSE SegmentWise(IF Len(a_segments) = 0 THEN <<>> ELSE Tail(a_segments),
                             IF Len(b_segments) = 0 THEN <<>> ELSE Tail(b_segments))

NumericOrder(a, b) == SegmentWise(Split(a, "."), Split(b, "."))

\* C13 (as stated): each comparator of the metadata clients orders two dotted
\* numeric version strings as segment-wise unsigned comparison does, missing
\* trailing segments read as zero.
C13_Original ==
    /\ forge_order \in {"Less", "Equal", "Greater"} =>
          forge_order = NumericOrder(cmp_a, cmp_b)
    /\ compat_order \in {"Less", "Equal", "Greater"} =>
          compat_order = NumericOrder(cmp_a, cmp_b)
    /\ mc_order \in {"Less", "Equal", "Greater"} =>
          mc_order = NumericOrder(cmp_a, cmp_b)

\* C15 (as stated): get_recommended_loader returns NeoForge exactly when the
\* game version is >= 1.20.1 under dotted-numeric comparison, Forge otherwise.
C15_Original ==
    recommended \in {"Forge", "NeoForge"} =>
        (recommended = "NeoForge" <=> NumericOrder(cmp_a, "1.20.1") # "Less")

\* ---- the command line ----
\* the universal game arguments, --username ... --userType <type>
UniversalCount == 16

\* the universal game arguments a command ends with
UniversalArgs == SubSeq(cmd, Len(cmd) - UniversalCount + 1, Len(cmd))

FlagCount == 10 + Len(jvm_args)

\* where -cp stands: behind the flags, and behind the -p group if there is one
CpIndex == FlagCount + (IF Len(module_path) > 0 THEN 5 ELSE 1)

\* C17: the Forge/NeoForge command holds `-p <module-path> --add-modules
\* ALL-MODULE-PATH` exactly when the module-path is non-empty, and its order
\* is: JVM flags, -p (if any), -cp <classpath>, the main class, the loader's
\* game arguments, the universal game arguments.
C17_CommandOrder ==
    (ModularLoader /\ Len(cmd) > 0) =>
       LET group == <<"-p", Join(module_path, ":"), "--add-modules", "ALL-MODULE-PATH">>
           universal == Len(cmd) - UniversalCount + 1
           loader_end == CpIndex + 2 + Len(game_args)
       IN /\ SubSeq(cmd, FlagCount - Len(jvm_args) + 1, FlagCount) = jvm_args
          /\ (SubSeq(cmd, CpIndex - 4, CpIndex - 1) = group) <=> (Len(module_path) > 0)
          /\ cmd[CpIndex] = "-cp"
          /\ cmd[CpIndex + 2] = main_class
          /\ SubSeq(cmd, CpIndex + 3, loader_end) = game_args
          /\ SubSeq(cmd, loader_end + 1, universal - 1)
                \in {<<>>, <<"--launchTarget", "forgeclient">>}
          /\ cmd[universal] = "--username"
          /\ cmd[Len(cmd) - 1] = "--userType"

\* a launched modular loader with a module-path and loader game arguments
C17_Witness ==
    /\ ModularLoader /\ l_pc = "launched"
    /\ Len(module_path) > 0 /\ Len(game_args) > 0
    /\ cmd[CpIndex - 4] = "-p"

\* C18: the game process is spawned only after version info, client jar,
\* libraries, assets and the loader install succeeded and a Java was found;
\* a launch that fails (no Java included) returns Err and spawns nothing.
C18_SpawnLast ==
    /\ l_pc = "launched" =>
          /\ launch_result = "Ok"
          /\ cmd[1] = java_path
          /\ client_jar \in disk
          /\ LibraryDownloads(version_libraries, disk) = <<>>
          /\ vanilla_classpath = download_libraries(version_libraries)
          /\ main_class # ""
          /\ ModularLoader =>
                installer_file = "valid" /\ lib_i > Len(manifest.libraries)
          /\ loader = "Fabric" => Range(FabricRequired) \subseteq disk
          /\ loader = "Quilt" => Range(QuiltRequired) \subseteq disk
    /\ launch_result = "Err" <=> l_pc = "failed"
    /\ launch_result = "Ok" <=> l_pc = "launched"

\* every step succeeded, find_java failed: Err, no command, nothing spawned
C18_Witness ==
    /\ loader = "Vanilla" /\ l_pc = "failed" /\ launch_result = "Err"
    /\ Len(version_libraries) > 0
    /\ vanilla_classpath = download_libraries(version_libraries)
    /\ cmd = <<>>

\* the name fragments of the blacklist
Blacklist ==
    {"asm", "bootstraplauncher", "securejarhandler", "JarJar", "eventbus",
     "coremods", "modlauncher", "neoforge", "guava", "failureaccess", "jtracy"}

Blacklisted(entry) == \E fragment \in Blacklist : Contains(entry, fragment)

\* the entries of the vanilla classpath that the loader did not supply
VanillaOnlyEntries ==
    {e \in Range(Split(vanilla_classpath, ":")) : e \notin Range(classpath)}

\* C19 (as stated): in the merged classpath of a Forge/NeoForge launch no
\* entry that came from the vanilla classpath contains a blacklisted name
\* fragment.
C19_Original ==
    (ModularLoader /\ l_pc = "launched") =>
       \A e \in VanillaOnlyEntries \cap Range(CpEntries) : ~Blacklisted(e)

\* arguments.game of the Forge installer's version.json: the declared target
DeclaredGameArgs == <<"--launchTarget", "forge_client">>

\* the launch targets that imply a mod-loader environment
ModLoaderTargets == {"forge_client", "forgeclient", "fmlclient"}

HasFmlloader == \E i \in 1..Len(module_path) : Contains(module_path[i], "fmlloader")

\* C20 (as stated): in the Forge installer's game arguments, when no
\* module-path entry contains fmlloader and the manifest declares a
\* mod-loader launch target, the value after --launchTarget is minecraft.
C20_Original ==
    ( /\ loader = "Forge" /\ l_pc \in {"installed", "launched"}
      /\ ~HasFmlloader
      /\ ArgAfter(DeclaredGameArgs, "--launchTarget") \in ModLoaderTargets )
    => ArgAfter(game_args, "--launchTarget") = "minecraft"

\* ---- the install result ----
\* the fixed baseline of the loader: its --add-opens / --add-exports flags and
\* its system properties
Baseline == IF loader = "NeoForge" THEN NeoForgeDefaultJvmArgs ELSE ForgeDefaultJvmArgs

\* C21 (as stated): the JVM arguments of every Forge/NeoForge install result
\* contain the fixed baseline, whatever the installer manifest declares.
C21_Original ==
    (ModularLoader /\ l_pc \in {"installed", "launched"}) =>
        Range(Baseline) \subseteq Range(jvm_args)

\* the file a pass of the library loop is about
PassPath == FetchLibrary(manifest.libraries[lib_i - 1], {}, "Ok").path
PassRan == l_pc = "libraries" /\ lib_i > 1

\* C22 (as stated): when the download of a declared library fails, the
\* install goes on and that library is in neither the classpath nor the
\* module-path.
C22_Original ==
    (PassRan /\ lib_outcome \in DownloadErrors) =>
        /\ launch_result = "none"
        /\ PassPath \notin Range(classpath) \cup Range(module_path)

\* the files of the passes of the library loop that have run
PassedPaths == {FetchLibrary(manifest.libraries[j], {}, "Ok").path : j \in 1..(lib_i - 1)}
Classified == Range(classpath) \cup Range(module_path)

WellFormedZip(f) == f \in {"valid", "no_manifest"}

EcosystemMaven(l) ==
    IF l = "NeoForge"
    THEN <<"https://maven.neoforged.net/releases/", "https://maven.minecraftforge.net/">>
    ELSE <<"https://maven.minecraftforge.net/">>
MinecraftCdn == "https://libraries.minecraft.net/"
MavenCentral == "https://repo1.maven.org/maven2/"

PassLib == manifest.libraries[lib_i - 1]
MirrorPass == PassRan /\ PassLib.downloads = "None" /\ contacted # <<>>

\* the requests of the pass went to the mirrors `order` in turn, stopped at
\* the first that succeeded and went through all of them when none did
AskedInTurn(order) ==
    /\ Len(contacted) <= Len(order)
    /\ \A i \in 1..Len(contacted) :
           /\ contacted[i].url = order[i] \o Self_maven_to_path(PassLib.name)
           /\ contacted[i].ok => i = Len(contacted)
    /\ ~contacted[Len(contacted)].ok => Len(contacted) = Len(order)

\* C25 (as stated): for a declared library without an artifact descriptor
\* the mirrors are asked in the order ecosystem Maven, Minecraft libraries
\* CDN, Maven Central, and none is asked after the first success.
C25_Original ==
    MirrorPass => AskedInTurn(EcosystemMaven(loader) \o <<MinecraftCdn, MavenCentral>>)

\* C25 (amended): for a declared library without an artifact descriptor the
\* mirrors are asked in the order ecosystem Maven, Maven Central, Minecraft
\* libraries CDN; none is asked after the first success, and all are asked
\* when none succeeds.
C25_MirrorOrder ==
    MirrorPass => AskedInTurn(EcosystemMaven(loader) \o <<MavenCentral, MinecraftCdn>>)

\* the ecosystem Maven failed and Maven Central delivered the library
C25_Witness ==
    /\ MirrorPass /\ loader = "Forge"
    /\ Len(contacted) = 2 /\ contacted[2].ok
    /\ PassPath \in Range(classpath)

\* ---- the loader version installed ----
\* C26 (as stated): for Fabric, Quilt, Forge and NeoForge, a profile version
\* "latest" installs the first entry the metadata client returns, and any
\* other profile version is installed as it is written.
C26_Original ==
    loader_version # NotResolved =>
        IF rv_version = "latest"
        THEN loader_version = FirstListed(loader_versions, rv_loader)
        ELSE loader_version = ResolveOk(rv_version)

\* ---- the critical libraries of the Forge installer ----
\* critical_modules of core/minecraft/forge.rs: the path under the libraries
\* directory and the urls to try
critical_modules ==
    << [path |-> "net/sf/jopt-simple/jopt-simple/5.0.4/jopt-simple-5.0.4.jar",
        urls |-> << "https://repo1.maven.org/maven2/net/sf/jopt-simple/jopt-simple/5.0.4/jopt-simple-5.0.4.jar",
                    "https://libraries.minecraft.net/net/sf/jopt-simple/jopt-simple/5.0.4/jopt-simple-5.0.4.jar" >>],
       [path |-> "net/minecraftforge/bootstrap/2.1.8/bootstrap-2.1.8.jar",
        urls |-> << "https://maven.minecraftforge.net/net/minecraftforge/bootstrap/2.1.8/bootstrap-2.1.8.jar" >>],
       [path |-> "net/minecraftforge/bootstrap-api/2.1.8/bootstrap-api-2.1.8.jar",
        urls |-> << "https://maven.minecraftforge.net/net/minecraftforge/bootstrap-api/2.1.8/bootstrap-api-2.1.8.jar" >>],
       [path |-> "net/minecraftforge/modlauncher/10.2.4/modlauncher-10.2.4.jar",
        urls |-> << "https://maven.minecraftforge.net/net/minecraftforge/modlauncher/10.2.4/modlauncher-10.2.4.jar" >>],
       [path |-> "org/ow2/asm/asm/9.7/asm-9.7.jar",
        urls |-> << "https://repo1.maven.org/maven2/org/ow2/asm/asm/9.7/asm-9.7.jar" >>],
       [path |-> "org/ow2/asm/asm-commons/9.7/asm-commons-9.7.jar",
        urls |-> << "https://repo1.maven.org/maven2/org/ow2/asm/asm-commons/9.7/asm-commons-9.7.jar" >>],
       [path |-> "org/ow2/asm/asm-tree/9.7/asm-tree-9.7.jar",
        urls |-> << "https://repo1.maven.org/maven2/org/ow2/asm/asm-tree/9.7/asm-tree-9.7.jar" >>],
       [path |-> "org/ow2/asm/asm-analysis/9.7/asm-analysis-9.7.jar",
        urls |-> << "https://repo1.maven.org/maven2/org/ow2/asm/asm-analysis/9.7/asm-analysis-9.7.jar" >>],
       [path |-> "org/ow2/asm/asm-util/9.7/asm-util-9.7.jar",
        urls |-> << "https://repo1.maven.org/maven2/org/ow2/asm/asm-util/9.7/asm-util-9.7.jar" >> ] >>

\* the urls of the requests of the step just run
ContactedUrls == {contacted[i].url : i \in 1..Len(contacted)}

\* C27 (as stated): when the Forge install returns its result, every critical
\* library still without a file has had its hardcoded urls tried, and a
\* critical library is on the module-path only with a file at its path.
C27_Original ==
    (loader = "Forge" /\ l_pc = "installed") =>
        \A i \in 1..Len(critical_modules) :
            LET full_path == PathJoin(libraries_dir, critical_modules[i].path)
            IN  /\ full_path \notin disk =>
                       Range(critical_modules[i].urls) \subseteq ContactedUrls
                /\ full_path \in Range(module_path) => full_path \in disk

\* ---- the legacy path of ForgeClient ----
\* the Forge versions a feed holds for the requested game version
ForgeReleasesIn(doc) ==
    LET all == ForgeAllVersions(doc)
        mine == SelectSeq(all, LAMBDA v : v.mc_version = lv_game)
    IN  [i \in 1..Len(mine) |-> mine[i].forge_version]

\* C28 (as stated): when the primary index answers without the requested
\* game version, ForgeClient::get_loader_versions returns the releases the
\* promotions feed holds for it instead of a not-found error.
C28_Original ==
    (/\ lv_client = "Forge" /\ lv_result.status \in {"Ok", "Err"}
     /\ unreachable = {}
     /\ ForgeReleasesIn(lv_index) = <<>>
     /\ ForgeReleasesIn(promos) # <<>>) =>
        lv_result = LvOk(ForgeReleasesIn(promos))

\* ---- availability of the recommended loader ----
\* C29 (as stated): is_loader_available(NeoForge, v) is true for every game
\* version v from 1.20.1 on, and so whenever get_recommended_loader(v) is
\* NeoForge.
C29_Original ==
    available.loader = "NeoForge" =>
        /\ compare_mc_versions(cmp_a, "1.20.1") # "Less" => available.value
        /\ recommended = "NeoForge" => available.value

\* ---- the supported game versions ----
\* C30 (as stated): the result of get_all_supported_versions holds no
\* version string twice and is sorted newest first.
C30_Original ==
    supported.status = "Ok" =>
        /\ \A i, j \in 1..Len(supported.versions) :
               i # j => supported.versions[i] # supported.versions[j]
        /\ \A i, j \in 1..Len(supported.versions) :
               i < j => compare_versions(supported.versions[i],
                                         supported.versions[j]) # "Less"

(***************************************************************************)
(* Specifications.                                                         *)
(***************************************************************************)
NextDownload ==
    \/ DownloadFile
    \/ EnterDownloadWithHash
    \/ Attempt
    \/ FinalDownload

StartDownload == InitDownload /\ IdleDedup /\ IdleLaunch /\ IdleRace /\ IdleReinstall /\ IdleBatch /\ IdleLoaderVersions /\ IdleCompare /\ IdleFetch /\ IdleResolve /\ IdleAvailable /\ IdleSupported

SpecDownload == StartDownload /\ [][NextDownload]_vars

NextDedup ==
    \/ DedupOnce
    \/ DedupTwice

StartDedup == InitDedup /\ IdleDownload /\ IdleLaunch /\ IdleRace /\ IdleReinstall /\ IdleBatch /\ IdleLoaderVersions /\ IdleCompare /\ IdleFetch /\ IdleResolve /\ IdleAvailable /\ IdleSupported

SpecDedup == StartDedup /\ [][NextDedup]_vars

NextLaunch ==
    \/ PrepareGame
    \/ NeoForgeInstaller
    \/ NeoForgeLibrary
    \/ NeoForgeCriticalJars
    \/ ForgeInstaller
    \/ ForgeLibrary
    \/ ForgeResult
    \/ InstallFabric
    \/ InstallQuilt
    \/ LaunchNeoForgeOrForge
    \/ LaunchStandard

StartLaunch == InitLaunch /\ IdleDownload /\ IdleDedup /\ IdleRace /\ IdleReinstall /\ IdleBatch /\ IdleLoaderVersions /\ IdleCompare /\ IdleFetch /\ IdleResolve /\ IdleAvailable /\ IdleSupported

SpecLaunch == StartLaunch /\ [][NextLaunch]_vars

NextRace ==
    \E p \in Installs :
        \/ PresenceCheck(p)
        \/ Send(p)
        \/ Create(p)
        \/ WriteChunk(p)
        \/ Flush(p)
        \/ ReadAndCompare(p)
        \/ RemoveAndRetry(p)
        \/ Push(p)

StartRace == InitRace /\ IdleDownload /\ IdleDedup /\ IdleLaunch /\ IdleReinstall /\ IdleBatch /\ IdleLoaderVersions /\ IdleCompare /\ IdleFetch /\ IdleResolve /\ IdleAvailable /\ IdleSupported

SpecRace == StartRace /\ [][NextRace]_vars

NextReinstall ==
    \/ InstallForge
    \/ ExtractForgeLibrary
    \/ InstallForgeReturn
    \/ InstallForgeFallback
    \/ InstallAgain

StartReinstall == InitReinstall /\ IdleDownload /\ IdleDedup /\ IdleRace /\ IdleBatch /\ IdleLoaderVersions /\ IdleCompare /\ IdleFetch /\ IdleResolve /\ IdleAvailable /\ IdleSupported

SpecReinstall == StartReinstall /\ [][NextReinstall]_vars

NextBatch ==
    \/ Schedule
    \/ FinishTransfer
    \/ Collect

StartBatch == InitBatch /\ IdleDownload /\ IdleDedup /\ IdleLaunch /\ IdleRace /\ IdleReinstall /\ IdleLoaderVersions /\ IdleCompare /\ IdleFetch /\ IdleResolve /\ IdleAvailable /\ IdleSupported

SpecBatch == StartBatch /\ [][NextBatch]_vars

NextLoaderVersions == FabricCall \/ QuiltCall \/ ForgeCall \/ NeoForgeCall

StartLoaderVersions == InitLoaderVersions /\ IdleDownload /\ IdleDedup /\ IdleLaunch /\ IdleRace /\ IdleReinstall /\ IdleBatch /\ IdleCompare /\ IdleFetch /\ IdleResolve /\ IdleAvailable /\ IdleSupported

SpecLoaderVersions == StartLoaderVersions /\ [][NextLoaderVersions]_vars

NextCompare ==
    CompareVersionStrings \/ CompareVersions \/ CompareMcVersions
        \/ GetRecommendedLoader \/ IsLoaderAvailable

StartCompare == InitCompare /\ IdleDownload /\ IdleDedup /\ IdleLaunch /\ IdleRace /\ IdleReinstall /\ IdleBatch /\ IdleLoaderVersions /\ IdleFetch /\ IdleResolve /\ IdleAvailable /\ IdleSupported

SpecCompare == StartCompare /\ [][NextCompare]_vars

NextResolve ==
    \/ ResolveForgeOrNeoForge
    \/ ResolveFabric
    \/ ResolveQuilt

StartResolve == InitResolve /\ IdleDownload /\ IdleDedup /\ IdleLaunch /\ IdleRace /\ IdleReinstall /\ IdleBatch /\ IdleLoaderVersions /\ IdleCompare /\ IdleFetch /\ IdleAvailable /\ IdleSupported

SpecResolve == StartResolve /\ [][NextResolve]_vars

NextSupported == GetAllSupportedVersions

StartSupported == InitSupported /\ IdleDownload /\ IdleDedup /\ IdleLaunch /\ IdleRace /\ IdleReinstall /\ IdleBatch /\ IdleLoaderVersions /\ IdleCompare /\ IdleFetch /\ IdleResolve /\ IdleAvailable

SpecSupported == StartSupported /\ [][NextSupported]_vars

====
